---- MODULE Spec2Model ----
(***************************************************************************)
(* A model of asynchia: the socket-maps (select, poll, epoll, kqueue), the *)
(* Notifier, the SocketTransport and the cross-thread protocols            *)
(* (interrupt handshake, call_synchronized).                               *)
(*                                                                         *)
(* One SocketTransport t with a bound Handler is registered in one         *)
(* socket-map.  Operations of the library are operators from a machine     *)
(* state m = [tr, sm, calls, exc] to the machine state after the call:     *)
(*   tr     the transport's attributes,                                    *)
(*   sm     the socket-map's attributes,                                   *)
(*   calls  the socket-map subscription methods called so far,             *)
(*   exc    TRUE when the call left by raising an exception.               *)
(*                                                                         *)
(* Further down: asynchia.ee (inputs, collectors and the MockHandler) and  *)
(* asynchia.defer (nodes, deferreds and the Coroutine), each with          *)
(* specifications of its own.                                              *)
(***************************************************************************)
EXTENDS Integers, Sequences, FiniteSets, TLC

VARIABLES
    tr,         \* SocketTransport attributes
    sm,         \* socket-map attributes
    hist        \* SpecFlags: the last two interest-flag operations;
                \* SpecLife: the handler callbacks of the current poll / close

\* call_synchronized
VARIABLES
    funs,       \* _CallSynchronizedHandler.funs, the Queue of submitted functions
    wakeup,     \* bytes sent on the wake-up socket and not yet received
    cpc,        \* per calling thread: "idle", or "put" between funs.put and sock.send
    csent,      \* per calling thread: completed call_synchronized calls
    rpc,        \* the reactor thread's place in its poll iteration
    pending,    \* handle_read: bytes of the recv not yet iterated over
    saw,        \* this poll iteration found the wake-up socket readable
    ranIter,    \* functions run in this poll iteration
    emptyHit,   \* handle_read met queue.Empty: a byte without a function
    enqLog,     \* ids of the functions in the order of funs.put
    runLog      \* [id, by]: the functions run, in order, and the running thread

\* the interrupt protocol (ControlSocketSocketMap)
VARIABLES
    ipc,         \* per external thread: its place in start_/end_interrupt
    icf,         \* per external thread: the changeflags argument it uses
    toRecv,      \* bytes sent on controlsender, not yet read from controlreceiver
    toSend,      \* 'i' bytes sent on controlreceiver, not yet read from controlsender
    mpc,         \* the reactor thread's place in poll / do_interrupt / close
    interrupted, \* poll's local: the control socket was reported readable
    needresp,    \* RobustSocketMap.needresp
    snap,        \* the write interest the blocking select/poll call was entered with
    ready,       \* the OS call reported the transport writable
    wdone,       \* the handler's handle_write has been dispatched
    atClose      \* the threads that waited for an 'i' when close() was called

\* the reactor thread dispatching to one transport's handler
VARIABLES
    stack,       \* the reactor thread's call stack, innermost frame last
    exc,         \* an exception is propagating up the stack
    sock,        \* the state of the transport's socket in the operating system
    used,        \* transport methods the handler has called from its callbacks
    polls,       \* poll iterations that had an event of the transport to dispatch
    count,       \* per lifecycle callback: the times the handler was called
    removed      \* del_transport has returned, and the application has not
                 \* called set_readable or set_writeable since

\* SendallTrait
VARIABLES
    buf,            \* the bytes in __buf
    savewriteable,  \* __savewriteable, which handle_write restores from
    savewritable    \* __savewritable, which sendall saves to

\* asynchia.ee: inputs, collectors and the MockHandler they talk to
VARIABLES
    ee,          \* the Input or Collector the application ticks / feeds
    mock,        \* the MockHandler passed to ee: [inbuf, outbuf]
    twin,        \* a second Input built with + from the same operands
    twinmock,    \* the MockHandler passed to twin
    onclosed,    \* per element: the times its onclose callback was invoked
    res,         \* what the last tick / add_data / close of ee and twin did
    value,       \* per StringCollector: its value, as the application reads it
    ncalls       \* calls the application has made

\* asynchia.defer: nodes, deferreds and one coroutine
VARIABLES
    heap,        \* the Node objects, and the Coroutine's generator
    nres,        \* submit_success / submit_error calls the application has made
    thr          \* the thread Deferred.threaded_coroutine started

flagVars == <<tr, sm, hist>>

deferVars == <<heap, nres, thr>>

eeVars == <<ee, mock, twin, twinmock, onclosed, res, value, ncalls>>

lifeVars == <<stack, exc, sock, used, polls, count, removed>>

sendVars == <<buf, savewriteable, savewritable>>

intVars == <<ipc, icf, toRecv, toSend, mpc, interrupted, needresp, snap, ready, wdone,
             atClose>>

csVars == <<funs, wakeup, cpc, csent, rpc, pending, saw, ranIter, emptyHit,
            enqLog, runLog>>

vars == <<tr, sm, hist, funs, wakeup, cpc, csent, rpc, pending, saw, ranIter,
          emptyHit, enqLog, runLog, ipc, icf, toRecv, toSend, mpc, interrupted,
          needresp, snap, ready, wdone, atClose, stack, exc, sock, used, polls,
          count, removed, buf, savewriteable, savewritable, ee, mock, twin,
          twinmock, onclosed, res, value, ncalls, heap, nres, thr>>

----------------------------------------------------------------------------
(* Backends *)

Kinds == {"select", "poll", "epoll", "kqueue"}

\* Flags every poll/epoll registration carries.
BaseFlags == {"IN", "PRI", "ERR", "HUP", "NVAL"}

Machine(t, s) == [tr |-> t, sm |-> s, calls |-> <<>>, exc |-> FALSE]

Raise(m) == [m EXCEPT !.exc = TRUE]

Called(m, name) == [m EXCEPT !.calls = Append(@, name)]

\* list.remove(x): drop the first occurrence.
RECURSIVE RemoveFirst(_, _)
RemoveFirst(seq, x) ==
    IF seq = <<>> THEN <<>>
    ELSE IF Head(seq) = x THEN Tail(seq)
    ELSE <<Head(seq)>> \o RemoveFirst(Tail(seq), x)

InSeq(seq, x) == \E i \in 1..Len(seq) : seq[i] = x

Drop(seq, k) == SubSeq(seq, k + 1, Len(seq))

Take(seq, k) == SubSeq(seq, 1, k)

create_flags(t) ==
    BaseFlags \cup (IF t.writeable \/ t.awaiting_connect THEN {"OUT"} ELSE {})

\* PollSocketMap.handler_changed: poller.register, which also registers an
\* unknown fd.  EPollSocketMap.handler_changed: poller.modify, which fails
\* for an fd that is not registered.
handler_changed(m) ==
    IF m.sm.kind = "epoll" /\ (~m.sm.inpoller \/ m.sm.pclosed)
    THEN Raise(m)
    ELSE [m EXCEPT !.sm.inpoller = TRUE, !.sm.mask = create_flags(m.tr)]

add_writer(m) ==
    LET c == Called(m, "add_writer") IN
    CASE m.sm.kind = "select" -> [c EXCEPT !.sm.writers = Append(@, "t")]
      [] m.sm.kind = "kqueue" ->
            IF m.sm.pclosed THEN Raise(c) ELSE [c EXCEPT !.sm.kqwrite = TRUE]
      [] OTHER -> handler_changed(c)

del_writer(m) ==
    LET c == Called(m, "del_writer") IN
    CASE m.sm.kind = "select" ->
            IF InSeq(m.sm.writers, "t")
            THEN [c EXCEPT !.sm.writers = RemoveFirst(@, "t")]
            ELSE Raise(c)
      [] m.sm.kind = "kqueue" ->
            IF m.sm.kqwrite /\ ~m.sm.pclosed
            THEN [c EXCEPT !.sm.kqwrite = FALSE] ELSE Raise(c)
      [] OTHER -> handler_changed(c)

add_reader(m) ==
    LET c == Called(m, "add_reader") IN
    IF m.sm.kind \in {"select", "kqueue"} THEN c ELSE handler_changed(c)

del_reader(m) ==
    LET c == Called(m, "del_reader") IN
    IF m.sm.kind \in {"select", "kqueue"} THEN c ELSE handler_changed(c)

----------------------------------------------------------------------------
(* SocketTransport: interest flags *)

set_readable_unguarded(m, v) ==
    LET n == [m EXCEPT !.tr.readable = v] IN
    IF v THEN add_reader(n) ELSE del_reader(n)

set_readable(m, v) ==
    IF m.tr.readable = v THEN m
    ELSE LET n == [m EXCEPT !.tr.readable = v] IN
         IF v THEN add_reader(n) ELSE del_reader(n)

set_writeable_eager(m, v) ==
    IF m.tr.writeable = v THEN m
    ELSE LET n == [m EXCEPT !.tr.writeable = v] IN
         IF v THEN add_writer(n) ELSE del_writer(n)

set_writeable(m, v) ==
    IF m.tr.writeable = v THEN m
    ELSE LET n == [m EXCEPT !.tr.writeable = v] IN
         IF ~m.tr.awaiting_connect
         THEN IF v THEN add_writer(n) ELSE del_writer(n)
         ELSE n

await_connect(m) ==
    LET n == [m EXCEPT !.tr.awaiting_connect = TRUE] IN
    IF ~n.tr.writeable THEN add_writer(n) ELSE n

stop_awaiting_connect(m) ==
    LET n == [m EXCEPT !.tr.awaiting_connect = FALSE] IN
    IF ~n.tr.writeable THEN del_writer(n) ELSE n

----------------------------------------------------------------------------
(* Socket-map registry *)

\* add_transport of the four socket-maps.  select looks for the handler in
\* its list, poll and epoll look for the fileno among the keys of their
\* dict.  kqueue looks for the handler among the keys of its dict, which are
\* filenos, so it never finds it and stores the handler under its fileno
\* again.
add_transport(m) ==
    CASE m.sm.kind = "kqueue" ->
            LET n == IF InSeq(m.sm.socket_list, "t") THEN m
                     ELSE [m EXCEPT !.sm.socket_list = Append(@, "t")]
            IN  IF n.sm.pclosed THEN Raise(n)
                ELSE LET r == IF n.tr.readable THEN add_reader(n) ELSE n IN
                     IF r.tr.writeable THEN add_writer(r) ELSE r
      [] InSeq(m.sm.socket_list, "t") -> Raise(m)
      [] OTHER ->
            LET n == [m EXCEPT !.sm.socket_list = Append(@, "t")] IN
            IF m.sm.kind = "select"
            THEN LET r == IF n.tr.readable THEN add_reader(n) ELSE n IN
                 IF r.tr.writeable THEN add_writer(r) ELSE r
            ELSE IF n.sm.pclosed THEN Raise(n)
            ELSE [n EXCEPT !.sm.inpoller = TRUE, !.sm.mask = create_flags(m.tr)]

del_transport_lenient(m) ==
    IF ~InSeq(m.sm.socket_list, "t") THEN m
    ELSE LET a == [m EXCEPT !.sm.socket_list = RemoveFirst(@, "t")] IN
         CASE m.sm.kind \in {"select", "kqueue"} ->
                LET b == IF a.tr.writeable \/ a.tr.awaiting_connect
                         THEN del_writer(a) ELSE a
                IN  [b EXCEPT !.calls = <<>>]
           [] OTHER -> [a EXCEPT !.sm.inpoller = FALSE, !.sm.mask = {}]

\* del_transport of the four socket-maps.  A step that raises leaves the
\* steps before it done.
del_transport(m) ==
    IF ~InSeq(m.sm.socket_list, "t") THEN Raise(m)
    ELSE LET a == [m EXCEPT !.sm.socket_list = RemoveFirst(@, "t")] IN
         CASE m.sm.kind = "select" ->
                LET b == IF a.tr.readable THEN del_reader(a) ELSE a
                    c == IF b.tr.writeable THEN del_writer(b) ELSE b
                IN  IF ~c.exc /\ c.tr.awaiting_connect THEN del_writer(c) ELSE c
           [] m.sm.kind = "kqueue" ->
                IF a.sm.pclosed THEN Raise(a)
                ELSE LET b == IF a.tr.readable THEN del_reader(a) ELSE a IN
                     IF b.tr.writeable \/ b.tr.awaiting_connect
                     THEN del_writer(b) ELSE b
           [] OTHER ->
                IF ~a.sm.inpoller \/ a.sm.pclosed THEN Raise(a)
                ELSE [a EXCEPT !.sm.inpoller = FALSE, !.sm.mask = {}]

\* The transport and socket-map attributes before set_socket.  handler and
\* socket tell whether self.handler and self.socket are set;
\* Transport.__init__ sets self.handler = None whatever it is passed.
NewTransport ==
    [readable |-> FALSE, writeable |-> FALSE, awaiting_connect |-> FALSE,
     connected |-> FALSE, closed |-> FALSE, cleanedup |-> FALSE,
     handler |-> FALSE, socket |-> FALSE]

NewMap(k) ==
    [kind |-> k,
     socket_list |-> IF k = "select" THEN <<"controlreceiver">> ELSE <<>>,
     writers |-> <<>>, inpoller |-> FALSE, mask |-> {}, kqwrite |-> FALSE,
     pclosed |-> FALSE, closed |-> FALSE]

\* SocketTransport.__init__ / set_socket for a socket that is (is_unconnected)
\* or is not yet connected.  No handler is bound while __init__ runs, so the
\* handle_connect of an already connected socket reaches no handler.  A
\* transport that had a socket is first taken out of the socket-map.
set_socket(m, unconnected) ==
    LET d == IF m.tr.socket THEN del_transport(m) ELSE m
        c == [d EXCEPT !.tr.connected = ~unconnected]
        h == IF ~unconnected /\ c.tr.handler
             THEN Called(c, "handle_connect") ELSE c
        a == add_transport([h EXCEPT !.tr.socket = TRUE])
    IN  IF d.exc THEN d
        ELSE IF unconnected /\ ~a.exc THEN await_connect(a) ELSE a

\* Handler.__init__
bind_handler(t) == [t EXCEPT !.handler = TRUE]

----------------------------------------------------------------------------
(* call_synchronized: CallSynchronized.call and _CallSynchronizedHandler *)

CsThreads == {"w1", "w2"}

\* call_synchronized calls of all threads together.
MaxSubmit == 3

\* _CallSynchronizedHandler.__init__(transport, per_run=1)
per_run == 1

FnIds == CsThreads \X (1..MaxSubmit)

Min(a, b) == IF a < b THEN a ELSE b

\* A queued function: its id, the number of functions in front of it when it
\* was put, whether it was queued when the current poll iteration began, and
\* the number of completed poll iterations that began after it was put and
\* found the wake-up socket readable.
Entry(id, q) == [id |-> id, ahead |-> Len(q), seen |-> FALSE, waited |-> 0]

\* CallSynchronized.call, first statement: self.handler.funs.put(fun)
call_put(q, id) == Append(q, Entry(id, q))

recv_wakeup_all(bytes) == [data |-> bytes, rest |-> 0]

\* The transport's recv(self.per_run) on the wake-up socket: the bytes it
\* returns and the bytes left in the socket.
recv_wakeup(bytes) ==
    [data |-> Min(per_run, bytes), rest |-> bytes - Min(per_run, bytes)]

get_nowait_lifo(q) ==
    IF q = <<>> THEN [empty |-> TRUE, run |-> <<>>, q |-> q]
    ELSE [empty |-> FALSE, run |-> <<[id |-> q[Len(q)].id, by |-> "reactor"]>>,
          q |-> SubSeq(q, 1, Len(q) - 1)]

\* One round of handle_read's loop: funs.get_nowait()() or queue.Empty.
get_nowait(q) ==
    IF q = <<>> THEN [empty |-> TRUE, run |-> <<>>, q |-> q]
    ELSE [empty |-> FALSE, run |-> <<[id |-> Head(q).id, by |-> "reactor"]>>,
          q |-> Tail(q)]

CsQuiet ==
    /\ funs = <<>>
    /\ wakeup = 0
    /\ cpc = [th \in CsThreads |-> "idle"]
    /\ csent = [th \in CsThreads |-> 0]
    /\ rpc = "idle"
    /\ pending = 0
    /\ saw = FALSE
    /\ ranIter = 0
    /\ emptyHit = FALSE
    /\ enqLog = <<>>
    /\ runLog = <<>>

----------------------------------------------------------------------------
(* The interrupt protocol: ControlSocketSocketMap and its three variants *)

IntThreads == {"x1", "x2"}

\* FragileSocketMap (select), RobustSocketMap (poll), RockSolidSocketMap
\* (epoll, kqueue)
Protocol(k) ==
    CASE k = "select" -> "fragile"
      [] k = "poll" -> "robust"
      [] OTHER -> "rocksolid"

\* start_interrupt(changeflags): "handshake" sends 's' and waits for 'i',
\* "needresp" sets self.needresp, "none" returns at once.
start_interrupt(k, cf) ==
    CASE Protocol(k) = "fragile" -> "handshake"
      [] Protocol(k) = "robust" -> IF ~cf THEN "handshake" ELSE "needresp"
      [] OTHER -> IF ~cf THEN "handshake" ELSE "none"

end_interrupt_rocksolid(k, cf) ==
    CASE Protocol(k) = "fragile" -> "release"
      [] OTHER -> IF ~cf THEN "release" ELSE "none"

\* end_interrupt(changeflags): "release" sends 'e', "handshake" sends 's',
\* waits for 'i' and sends 'e', "none" returns at once.
end_interrupt(k, cf) ==
    CASE Protocol(k) = "fragile" -> "release"
      [] Protocol(k) = "robust" -> IF ~cf THEN "release" ELSE "handshake"
      [] OTHER -> IF ~cf THEN "release" ELSE "none"

\* RobustSocketMap.close sends 'i' when needresp is set; the other variants
\* send nothing.
close_sends_i(k, nr) == Protocol(k) = "robust" /\ nr

\* Whether the OS call the reactor blocks in watches the transport for
\* writing: select and poll work on the lists they were called with, epoll
\* and kqueue on the kernel's registration, which other threads can change.
WatchesWrite(s, entered) ==
    CASE s.kind \in {"select", "poll"} -> entered
      [] s.kind = "epoll" -> "OUT" \in s.mask
      [] OTHER -> s.kqwrite

\* The write interest at the time select / poll is called.
WriteInterest(s) ==
    CASE s.kind = "select" -> InSeq(s.writers, "t")
      [] s.kind = "kqueue" -> s.kqwrite
      [] OTHER -> "OUT" \in s.mask

\* The places where a thread waits in controlsender.recv(1).
Waiting == {"s_wait", "e_wait"}

IntQuiet ==
    /\ ipc = [th \in IntThreads |-> "off"]
    /\ icf = [th \in IntThreads |-> FALSE]
    /\ toRecv = <<>>
    /\ toSend = 0
    /\ mpc = "idle"
    /\ interrupted = FALSE
    /\ needresp = FALSE
    /\ snap = FALSE
    /\ ready = FALSE
    /\ wdone = FALSE
    /\ atClose = {}

\* No element: the value of ee and twin where the application built none.
NoObj ==
    [cls |-> "None", id |-> 0, buf |-> <<>>, kids |-> <<>>, size |-> 0,
     closed |-> FALSE, inited |-> FALSE]

\* MockHandler.__init__
MockHandler(inbuf) == [inbuf |-> inbuf, outbuf |-> <<>>]

\* No call made yet.
NoRes == [op |-> "none", done |-> FALSE, n |-> 0, exc |-> "", hang |-> FALSE]

EeQuiet ==
    /\ ee = NoObj
    /\ twin = NoObj
    /\ mock = MockHandler(<<>>)
    /\ twinmock = MockHandler(<<>>)
    /\ onclosed = <<>>
    /\ res = <<NoRes, NoRes>>
    /\ value = <<>>
    /\ ncalls = 0

\* No Node, no Coroutine.
DeferQuiet ==
    /\ heap = <<>>
    /\ nres = 0
    /\ thr = <<>>

\* SendallTrait.__init__
SendQuiet ==
    /\ buf = <<>>
    /\ savewriteable = "None"
    /\ savewritable = "unset"

LifeQuiet ==
    /\ stack = <<>>
    /\ exc = FALSE
    /\ sock = "connecting"
    /\ used = 0
    /\ polls = 0
    /\ count = <<>>
    /\ removed = FALSE

----------------------------------------------------------------------------
(* Specification SpecFlags: a user changing the interest flags *)

NoOp == [op |-> "none", v |-> FALSE, pre |-> NewTransport, pre_sm |-> NewMap("select"),
         post |-> NewTransport, post_sm |-> NewMap("select"), calls |-> <<>>,
         exc |-> FALSE]

Record(op, v, r) ==
    <<hist[2], [op |-> op, v |-> v, pre |-> tr, pre_sm |-> sm,
                post |-> r.tr, post_sm |-> r.sm, calls |-> r.calls,
                exc |-> r.exc]>>

InitFlags ==
    /\ \E k \in Kinds, unconnected \in BOOLEAN :
         LET m == set_socket(Machine(NewTransport, NewMap(k)), unconnected) IN
         /\ tr = m.tr
         /\ sm = m.sm
    /\ hist = <<NoOp, NoOp>>
    /\ CsQuiet
    /\ LifeQuiet
    /\ SendQuiet
    /\ EeQuiet
    /\ DeferQuiet
    /\ IntQuiet

SetReadable(v) ==
    LET r == set_readable(Machine(tr, sm), v) IN
    /\ tr' = r.tr
    /\ sm' = r.sm
    /\ hist' = Record("set_readable", v, r)
    /\ UNCHANGED <<csVars, intVars, lifeVars, sendVars, eeVars, deferVars>>

SetWriteable(v) ==
    LET r == set_writeable(Machine(tr, sm), v) IN
    /\ tr' = r.tr
    /\ sm' = r.sm
    /\ hist' = Record("set_writeable", v, r)
    /\ UNCHANGED <<csVars, intVars, lifeVars, sendVars, eeVars, deferVars>>

\* The pending connect completes: _unawait_conn's stop_awaiting_connect and
\* connected = True.
ConnectCompletes ==
    /\ tr.awaiting_connect
    /\ LET r == stop_awaiting_connect(Machine(tr, sm)) IN
       /\ tr' = [r.tr EXCEPT !.connected = TRUE]
       /\ sm' = r.sm
       /\ hist' = Record("connect_done", FALSE, r)
    /\ UNCHANGED <<csVars, intVars, lifeVars, sendVars, eeVars, deferVars>>

\* connect() on a transport that is not awaiting a connect, the OS answering
\* EINPROGRESS: connected = False and await_connect().
ConnectInProgress ==
    /\ ~tr.awaiting_connect
    /\ LET r == await_connect(Machine([tr EXCEPT !.connected = FALSE], sm)) IN
       /\ tr' = r.tr
       /\ sm' = r.sm
       /\ hist' = Record("connect", FALSE, r)
    /\ UNCHANGED <<csVars, intVars, lifeVars, sendVars, eeVars, deferVars>>

NextFlags ==
    \/ \E v \in BOOLEAN : SetReadable(v)
    \/ \E v \in BOOLEAN : SetWriteable(v)
    \/ ConnectCompletes
    \/ ConnectInProgress

SpecFlags == InitFlags /\ [][NextFlags]_vars

Setters == {"set_readable", "set_writeable"}

\* The user-facing flag a setter operation h is about, before the call.
FlagBefore(h) == IF h.op = "set_readable" THEN h.pre.readable ELSE h.pre.writeable

\* The one subscription change a setter call with a new value v makes.
Subscription(h) ==
    IF h.op = "set_readable"
    THEN IF h.v THEN <<"add_reader">> ELSE <<"del_reader">>
    ELSE IF h.v THEN <<"add_writer">> ELSE <<"del_writer">>

\* hist holds the same setter called twice in a row with the same value
\* (set_writeable: on a transport that is not awaiting its connect).
SetTwice ==
    /\ hist[1].op \in Setters
    /\ hist[2].op = hist[1].op
    /\ hist[2].v = hist[1].v
    /\ hist[1].op = "set_writeable" => ~hist[1].pre.awaiting_connect

\* C10: setting readable (or writeable while not awaiting connect) to v twice
\* in a row calls the socket-map's add_/del_ method exactly once when v differs
\* from the previous value and never when it does not; a setter call with the
\* current value changes neither the transport nor the socket-map.
C10_IdempotentInterest ==
    /\ SetTwice =>
          hist[1].calls \o hist[2].calls =
             IF FlagBefore(hist[1]) # hist[1].v THEN Subscription(hist[1]) ELSE <<>>
    /\ \A i \in 1..2 :
          (hist[i].op \in Setters /\ FlagBefore(hist[i]) = hist[i].v) =>
             /\ hist[i].calls = <<>>
             /\ hist[i].post = hist[i].pre
             /\ hist[i].post_sm = hist[i].pre_sm

\* set_writeable(v) with a new v on a transport that is not awaiting connect,
\* followed by set_writeable(v) again.
C10_Witness ==
    /\ SetTwice
    /\ hist[1].op = "set_writeable"
    /\ FlagBefore(hist[1]) # hist[1].v
    /\ Len(hist[1].calls) = 1

\* C11: while awaiting_connect is set the socket-map watches the transport
\* for write readiness whatever writeable is; writeable is the value the last
\* set_writeable call gave it (no other operation changes it); and while no
\* connect is awaited the socket-map watches write readiness exactly when
\* writeable is set.
C11_WriteInterestWhileConnecting ==
    /\ tr.awaiting_connect => WriteInterest(sm)
    /\ hist[2].op = "set_writeable" => tr.writeable = hist[2].v
    /\ hist[2].op \notin {"set_writeable", "none"} =>
          tr.writeable = hist[2].pre.writeable
    /\ ~tr.awaiting_connect => (WriteInterest(sm) <=> tr.writeable)

\* set_writeable changed the flag while the connect was awaited, and the
\* connect has then completed.
C11_Witness ==
    /\ hist[1].op = "set_writeable"
    /\ hist[1].pre.awaiting_connect
    /\ hist[1].pre.writeable # hist[1].v
    /\ hist[2].op = "connect_done"
    /\ WriteInterest(sm) = hist[1].v

----------------------------------------------------------------------------
(* Specification SpecRegistry: the application adds the transport to and    *)
(* removes it from the socket-map, and changes its interest flags.          *)

\* The entries the writer list of the select map may hold when add_transport
\* is called.
MaxWriters == 2

AddTransport ==
    /\ Len(sm.writers) < MaxWriters
    /\ LET r == add_transport(Machine(tr, sm)) IN
       /\ tr' = r.tr
       /\ sm' = r.sm
       /\ hist' = Record("add_transport", FALSE, r)
    /\ UNCHANGED <<csVars, intVars, lifeVars, sendVars, eeVars, deferVars>>

DelTransport ==
    /\ LET r == del_transport(Machine(tr, sm)) IN
       /\ tr' = r.tr
       /\ sm' = r.sm
       /\ hist' = Record("del_transport", FALSE, r)
    /\ UNCHANGED <<csVars, intVars, lifeVars, sendVars, eeVars, deferVars>>

NextRegistry ==
    \/ AddTransport
    \/ DelTransport
    \/ \E v \in BOOLEAN : SetReadable(v)
    \/ \E v \in BOOLEAN : SetWriteable(v)
    \/ ConnectCompletes

SpecRegistry == InitFlags /\ [][NextRegistry]_vars

Registered(s) == InSeq(s.socket_list, "t")

C15_AddTransportTwiceFails ==
    (hist[2].op = "add_transport" /\ Registered(hist[2].pre_sm)) =>
        (hist[2].exc /\ hist[2].post_sm = hist[2].pre_sm)

----------------------------------------------------------------------------
(* Specification SpecWriters: the writers list of a SelectSocketMap.  The   *)
(* application makes a SocketTransport, sets its writeable flag, calls      *)
(* connect, set_socket, del_transport and close; the reactor completes a    *)
(* pending connect.                                                         *)

InitWriters ==
    /\ tr = NewTransport
    /\ sm = NewMap("select")
    /\ hist = <<NoOp, NoOp>>
    /\ CsQuiet
    /\ LifeQuiet
    /\ SendQuiet
    /\ EeQuiet
    /\ DeferQuiet
    /\ IntQuiet

\* SocketTransport(socket_map, sock), and set_socket(sock) later on, with a
\* socket that is or is not connected.
SetSocket(unconnected) ==
    /\ Len(sm.writers) < MaxWriters
    /\ LET r == set_socket(Machine(tr, sm), unconnected) IN
       /\ tr' = r.tr
       /\ sm' = r.sm
       /\ hist' = Record("set_socket", unconnected, r)
    /\ UNCHANGED <<csVars, intVars, lifeVars, sendVars, eeVars, deferVars>>

\* set_writeable(v) on the transport made.
WritersSetWriteable(v) ==
    /\ tr.socket
    /\ Len(sm.writers) < MaxWriters
    /\ SetWriteable(v)

\* connect(): EINPROGRESS.
WritersConnect ==
    /\ tr.socket
    /\ Len(sm.writers) < MaxWriters
    /\ ConnectInProgress

\* socket_map.del_transport(transport)
WritersDelTransport ==
    /\ tr.socket
    /\ DelTransport

\* SocketTransport.close(): del_transport and, if that returns,
\* connected = False.
WritersClose ==
    /\ tr.socket
    /\ LET r == del_transport(Machine(tr, sm)) IN
       /\ tr' = IF r.exc THEN r.tr ELSE [r.tr EXCEPT !.connected = FALSE]
       /\ sm' = r.sm
       /\ hist' = Record("close", FALSE, r)
    /\ UNCHANGED <<csVars, intVars, lifeVars, sendVars, eeVars, deferVars>>

NextWriters ==
    \/ \E unconnected \in BOOLEAN : SetSocket(unconnected)
    \/ \E v \in BOOLEAN : WritersSetWriteable(v)
    \/ WritersConnect
    \/ ConnectCompletes
    \/ WritersDelTransport
    \/ WritersClose

SpecWriters == InitWriters /\ [][NextWriters]_vars

\* C34: a registered transport is in the writers list exactly once if it is
\* writeable or awaits its connect and not at all otherwise, a transport
\* that is not registered is not in the list, and no operation has failed
\* in del_writer.
C34_WritersExact ==
    /\ Registered(sm) =>
          Cardinality({i \in 1..Len(sm.writers) : sm.writers[i] = "t"})
              = IF tr.writeable \/ tr.awaiting_connect THEN 1 ELSE 0
    /\ ~Registered(sm) => ~InSeq(sm.writers, "t")
    /\ ~(hist[2].exc /\ hist[2].calls /= <<>>
           /\ hist[2].calls[Len(hist[2].calls)] = "del_writer")

----------------------------------------------------------------------------
(* Specification SpecIO: the application calls send, recv, recv_into, peek  *)
(* and accept of a SocketTransport whose handler calls nothing back; the    *)
(* operating system answers with data, with no data or with an errno.       *)

\* asynchia.const
trylater == {"EAGAIN", "EWOULDBLOCK"}

connection_lost == {"ECONNRESET", "ECONNABORTED", "ENOTCONN", "ESHUTDOWN"}

\* The errnos the socket calls are answered with; "none" is success.
Errnos == {"none", "EAGAIN", "EWOULDBLOCK", "EPIPE", "ECONNRESET", "EBADF"}

\* The bytes, or connections, a successful socket call returns.
MaxBytes == 1

\* Notifier.close_obj for a handler that calls nothing back; soerr is what
\* SO_ERROR says when the transport is still awaiting its connect.
close_obj(m, soerr) ==
    LET a == IF m.tr.awaiting_connect
             THEN [stop_awaiting_connect(m) EXCEPT !.tr.connected = ~soerr]
             ELSE m
    IN  [a EXCEPT !.tr.closed = TRUE, !.tr.cleanedup = TRUE,
                  !.calls = Append(@, "close_obj")]

\* The value an I/O method returns, or the exception it raises.
Returns(m, v) == [m |-> m, ret |-> v, raised |-> FALSE]

Raises(m) == [m |-> m, ret |-> 0, raised |-> TRUE]

\* SocketTransport.send
send(m, err, n, soerr) ==
    CASE err = "none" -> Returns(m, n)
      [] err \in trylater -> Returns(m, 0)
      [] err = "EPIPE" -> Returns(close_obj(m, soerr), 0)
      [] OTHER -> Raises(m)

\* SocketTransport.recv
recv(m, err, n, soerr) ==
    CASE err = "none" -> Returns(IF n = 0 THEN close_obj(m, soerr) ELSE m, n)
      [] err \in connection_lost -> Returns(close_obj(m, soerr), 0)
      [] OTHER -> Raises(m)

\* SocketTransport.recv_into
recv_into(m, err, n, soerr) ==
    CASE err = "none" -> Returns(IF n = 0 THEN close_obj(m, soerr) ELSE m, n)
      [] err \in connection_lost -> Returns(close_obj(m, soerr), 0)
      [] OTHER -> Raises(m)

\* SocketTransport.peek
peek(m, err, n, soerr) == recv(m, err, n, soerr)

\* SocketTransport.accept; 0 stands for (None, None).
accept(m, err, n) ==
    CASE err = "none" -> Returns(m, n)
      [] err \in trylater -> Returns(m, 0)
      [] OTHER -> Raises(m)

IoOps == {"send", "recv", "recv_into", "peek", "accept"}

IoResult(op, m, err, n, soerr) ==
    CASE op = "send" -> send(m, err, n, soerr)
      [] op = "recv" -> recv(m, err, n, soerr)
      [] op = "recv_into" -> recv_into(m, err, n, soerr)
      [] op = "peek" -> peek(m, err, n, soerr)
      [] OTHER -> accept(m, err, n)

InitIO ==
    /\ \E k \in Kinds, unconnected \in BOOLEAN :
         LET m == set_socket(Machine(NewTransport, NewMap(k)), unconnected) IN
         /\ tr = m.tr
         /\ sm = m.sm
    /\ hist = <<>>
    /\ CsQuiet
    /\ LifeQuiet
    /\ SendQuiet
    /\ EeQuiet
    /\ DeferQuiet
    /\ IntQuiet

\* One call of an I/O method and the answer of the operating system.
IoCall(op, err, n, soerr) ==
    /\ ~tr.closed
    /\ LET r == IoResult(op, Machine(tr, sm), err, n, soerr) IN
       /\ tr' = r.m.tr
       /\ sm' = r.m.sm
       /\ hist' = <<[op |-> op, err |-> err, ret |-> r.ret, raised |-> r.raised,
                     pre |-> tr, pre_sm |-> sm]>>
    /\ UNCHANGED <<csVars, intVars, lifeVars, sendVars, eeVars, deferVars>>

\* The application sets the interest flags.
IoSetFlags(r, w) ==
    /\ ~tr.closed
    /\ LET a == set_readable(Machine(tr, sm), r)
           c == set_writeable(Machine(a.tr, a.sm), w)
       IN  tr' = c.tr /\ sm' = c.sm
    /\ hist' = <<>>
    /\ UNCHANGED <<csVars, intVars, lifeVars, sendVars, eeVars, deferVars>>

NextIO ==
    \/ \E op \in IoOps, err \in Errnos, n \in 0..MaxBytes, soerr \in BOOLEAN :
          IoCall(op, err, n, soerr)
    \/ \E r, w \in BOOLEAN : IoSetFlags(r, w)

SpecIO == InitIO /\ [][NextIO]_vars

\* C17: send, recv, recv_into, peek and accept never raise a would-block
\* error: they return zero progress and leave the transport, its closed,
\* connected and interest flags included, and the socket-map as they were.
C17_WouldBlockNeverRaised ==
    (hist /= <<>> /\ hist[1].err \in trylater) =>
        /\ ~hist[1].raised
        /\ hist[1].ret = 0
        /\ tr = hist[1].pre
        /\ sm = hist[1].pre_sm

----------------------------------------------------------------------------
(* Specification SpecSendall: a connected SocketTransport with SendallTrait *)
(* mixed in and a handler bound.  The application calls sendall and sets    *)
(* the writeable flag; the reactor delivers write events.                   *)

\* The bytes __buf may hold.
MaxBuf == 2

\* The bytes the application passes to sendall in all.
MaxData == 3

\* A Python bool as stored in __savewriteable / __savewritable.
PyBool(b) == IF b THEN "True" ELSE "False"

\* The drain in progress: the writeable flag when sendall found the buffer
\* empty, whether sendall was called again or the application called
\* set_writeable since, what the last write event did, and the last value
\* the application passed to set_writeable (uw).  given: how many bytes
\* sendall was passed so far, the bytes being 1, 2, ... in the order given;
\* wire: the bytes the socket's send has accepted.
NoDrain ==
    [w |-> FALSE, again |-> FALSE, userset |-> TRUE, last |-> "none",
     dispatched |-> FALSE, uw |-> FALSE, given |-> 0, wire |-> <<>>]

\* handle_write leaving the buffer as it is after send.
buf_after_send_keep(b, sent) == b

\* SendallTrait.handle_write: self.__buf = self.__buf[sent:]
buf_after_send(b, sent) == Drop(b, sent)

InitSendall ==
    /\ \E k \in Kinds :
         LET m == set_socket(Machine(NewTransport, NewMap(k)), FALSE) IN
         /\ tr = bind_handler(m.tr)
         /\ sm = m.sm
    /\ hist = NoDrain
    /\ SendQuiet
    /\ EeQuiet
    /\ DeferQuiet
    /\ CsQuiet
    /\ LifeQuiet
    /\ IntQuiet

\* SendallTrait.set_writeable, called by the application.
TraitSetWriteable(v) ==
    /\ IF buf = <<>>
       THEN LET r == set_writeable(Machine(tr, sm), v) IN
            tr' = r.tr /\ sm' = r.sm /\ savewriteable' = savewriteable
       ELSE savewriteable' = PyBool(v) /\ UNCHANGED <<tr, sm>>
    /\ hist' = [hist EXCEPT !.userset = TRUE, !.uw = v]
    /\ UNCHANGED <<buf, savewritable, csVars, intVars, lifeVars, eeVars, deferVars>>

\* SendallTrait.sendall(data) with n bytes of data.
Sendall(n) ==
    /\ Len(buf) + n <= MaxBuf
    /\ hist.given + n <= MaxData
    /\ savewritable' = IF buf = <<>> THEN PyBool(tr.writeable) ELSE savewritable
    /\ IF buf = <<>>
       THEN LET r == set_writeable(Machine(tr, sm), TRUE) IN
            tr' = r.tr /\ sm' = r.sm /\ savewriteable' = savewriteable
       ELSE savewriteable' = "True" /\ UNCHANGED <<tr, sm>>
    /\ buf' = buf \o [i \in 1..n |-> hist.given + i]
    /\ hist' = IF buf = <<>>
               THEN [w |-> tr.writeable, again |-> FALSE, userset |-> FALSE,
                     last |-> "sendall", dispatched |-> FALSE,
                     uw |-> hist.uw, given |-> hist.given + n,
                     wire |-> hist.wire]
               ELSE [hist EXCEPT !.again = TRUE, !.given = @ + n]
    /\ UNCHANGED <<csVars, intVars, lifeVars, eeVars, deferVars>>

\* Notifier.write_obj and SendallTrait.handle_write: the reactor reports the
\* socket writeable; send takes sent bytes of the buffer.
WriteEvent(sent) ==
    /\ WriteInterest(sm) /\ tr.writeable
    /\ IF buf = <<>>
       THEN /\ sent = 0
            /\ LET r == IF savewriteable /= "None"
                        THEN set_writeable(Machine(tr, sm), savewriteable = "True")
                        ELSE Machine(tr, sm)
               IN  /\ tr' = r.tr
                   /\ sm' = r.sm
                   /\ hist' = [hist EXCEPT !.last = "drained",
                                           !.dispatched = r.tr.handler /\ r.tr.writeable]
            /\ savewriteable' = "None"
            /\ buf' = buf
       ELSE /\ sent <= Len(buf)
            /\ buf' = buf_after_send(buf, sent)
            /\ hist' = [hist EXCEPT !.last = "sent", !.dispatched = FALSE,
                                    !.wire = @ \o Take(buf, sent)]
            /\ UNCHANGED <<tr, sm, savewriteable>>
    /\ UNCHANGED <<savewritable, csVars, intVars, lifeVars, eeVars, deferVars>>

NextSendall ==
    \/ \E v \in BOOLEAN : TraitSetWriteable(v)
    \/ \E n \in 1..MaxBuf : Sendall(n)
    \/ \E sent \in 0..MaxBuf : WriteEvent(sent)

SpecSendall == InitSendall /\ [][NextSendall]_vars

\* Write-readiness events keep occurring and send keeps accepting at least
\* one byte.
SpecSendallFair ==
    SpecSendall /\ WF_vars(\E sent \in 1..MaxBuf : WriteEvent(sent))

\* C20: when one sendall has filled the empty buffer while the writeable
\* flag was w, and the application has not called set_writeable since, the
\* write event that finds the buffer drained leaves the flag at w and
\* dispatches the handler's handle_write only if w is true.
C20_WriteableRestored ==
    (hist.last = "drained" /\ ~hist.userset /\ ~hist.again) =>
        /\ tr.writeable = hist.w
        /\ hist.dispatched => hist.w

\* C35: the bytes the socket's send has accepted, followed by those still
\* in the buffer, are the bytes passed to sendall in the order given, none
\* lost, duplicated or reordered; a write event that finds bytes in the
\* buffer does not reach the handler's handle_write, and while bytes are
\* buffered the transport is watched for writing; and the buffer, once
\* filled, eventually becomes empty.
C35_SendallInOrder ==
    /\ [](/\ hist.wire \o buf = [i \in 1..hist.given |-> i]
          /\ hist.last = "sent" => ~hist.dispatched
          /\ buf /= <<>> => (tr.writeable /\ WriteInterest(sm)))
    /\ (buf /= <<>> ~> buf = <<>>)

\* Two sendall calls, the second while the first byte was still buffered;
\* send accepted one byte, then two: all three bytes went out in order.
C35_Witness ==
    /\ hist.given = 3 /\ hist.again
    /\ hist.wire = <<1, 2, 3>>
    /\ buf = <<>>
    /\ hist.last = "sent"

\* SendallTrait.get_writeable: the writeable property read by the
\* application.
get_writeable == tr.writeable

\* C21: the writeable property always reads as the last value the
\* application passed to set_writeable (False before the first call), also
\* while a sendall drain is in flight.
C21_GetterShowsUserValue ==
    get_writeable = hist.uw

----------------------------------------------------------------------------
(* Specification SpecCallSync: threads calling call_synchronized while the  *)
(* reactor thread polls.  On every backend a poll that finds the wake-up    *)
(* socket readable calls Notifier.read_obj on its transport, which is       *)
(* readable and connected, and so _CallSynchronizedHandler.handle_read.     *)

InitCallSync ==
    /\ \E k \in Kinds :
         LET m == set_socket(Machine(NewTransport, NewMap(k)), FALSE) IN
         /\ tr = m.tr
         /\ sm = m.sm
    /\ hist = <<NoOp, NoOp>>
    /\ CsQuiet
    /\ LifeQuiet
    /\ SendQuiet
    /\ EeQuiet
    /\ DeferQuiet
    /\ IntQuiet

\* call: self.handler.funs.put(fun)
CallPut(th) ==
    /\ cpc[th] = "idle"
    /\ Len(enqLog) < MaxSubmit
    /\ funs' = call_put(funs, <<th, csent[th] + 1>>)
    /\ enqLog' = Append(enqLog, <<th, csent[th] + 1>>)
    /\ cpc' = [cpc EXCEPT ![th] = "put"]
    /\ UNCHANGED <<wakeup, csent, rpc, pending, saw, ranIter, emptyHit, runLog>>
    /\ UNCHANGED <<flagVars, intVars, lifeVars, sendVars, eeVars, deferVars>>

\* call: self.sock.send(b('a'))
CallSend(th) ==
    /\ cpc[th] = "put"
    /\ wakeup' = wakeup + 1
    /\ cpc' = [cpc EXCEPT ![th] = "idle"]
    /\ csent' = [csent EXCEPT ![th] = @ + 1]
    /\ UNCHANGED <<funs, rpc, pending, saw, ranIter, emptyHit, enqLog, runLog>>
    /\ UNCHANGED <<flagVars, intVars, lifeVars, sendVars, eeVars, deferVars>>

\* poll() is entered: the reactor blocks in the OS call.
CsPollBegin ==
    /\ rpc = "idle"
    /\ rpc' = "polling"
    /\ funs' = [i \in 1..Len(funs) |-> [funs[i] EXCEPT !.seen = TRUE]]
    /\ saw' = FALSE
    /\ ranIter' = 0
    /\ UNCHANGED <<wakeup, cpc, csent, pending, emptyHit, enqLog, runLog>>
    /\ UNCHANGED <<flagVars, intVars, lifeVars, sendVars, eeVars, deferVars>>

\* The OS call returns: with the wake-up socket among the readable ones when
\* it holds a byte, else by its timeout.
CsPollReturn ==
    /\ rpc = "polling"
    /\ saw' = (wakeup > 0)
    /\ rpc' = IF wakeup > 0 THEN "read" ELSE "end"
    /\ UNCHANGED <<funs, wakeup, cpc, csent, pending, ranIter, emptyHit, enqLog, runLog>>
    /\ UNCHANGED <<flagVars, intVars, lifeVars, sendVars, eeVars, deferVars>>

\* handle_read: self.transport.recv(self.per_run)
CsRecv ==
    /\ rpc = "read"
    /\ LET r == recv_wakeup(wakeup) IN
       /\ wakeup' = r.rest
       /\ pending' = r.data
    /\ rpc' = "run"
    /\ UNCHANGED <<funs, cpc, csent, saw, ranIter, emptyHit, enqLog, runLog>>
    /\ UNCHANGED <<flagVars, intVars, lifeVars, sendVars, eeVars, deferVars>>

\* handle_read: one round of the loop over the received bytes.
CsRunOne ==
    /\ rpc = "run"
    /\ pending > 0
    /\ LET g == get_nowait(funs) IN
       /\ funs' = g.q
       /\ runLog' = runLog \o g.run
       /\ ranIter' = ranIter + Len(g.run)
       /\ emptyHit' = (emptyHit \/ g.empty)
       /\ pending' = IF g.empty THEN 0 ELSE pending - 1
    /\ UNCHANGED <<wakeup, cpc, csent, rpc, saw, enqLog>>
    /\ UNCHANGED <<flagVars, intVars, lifeVars, sendVars, eeVars, deferVars>>

\* handle_read returns and the dispatch loop of poll() is over.
CsReadDone ==
    /\ rpc = "run"
    /\ pending = 0
    /\ rpc' = "end"
    /\ UNCHANGED <<funs, wakeup, cpc, csent, pending, saw, ranIter, emptyHit, enqLog, runLog>>
    /\ UNCHANGED <<flagVars, intVars, lifeVars, sendVars, eeVars, deferVars>>

\* poll() returns.
CsPollEnd ==
    /\ rpc = "end"
    /\ rpc' = "idle"
    /\ funs' = [i \in 1..Len(funs) |->
                  [funs[i] EXCEPT !.seen = FALSE,
                                  !.waited = IF saw /\ funs[i].seen THEN @ + 1 ELSE @]]
    /\ UNCHANGED <<wakeup, cpc, csent, pending, saw, ranIter, emptyHit, enqLog, runLog>>
    /\ UNCHANGED <<flagVars, intVars, lifeVars, sendVars, eeVars, deferVars>>

CsReactor ==
    \/ CsPollBegin
    \/ CsPollReturn
    \/ CsRecv
    \/ CsRunOne
    \/ CsReadDone
    \/ CsPollEnd

NextCallSync ==
    \/ \E th \in CsThreads : CallPut(th)
    \/ \E th \in CsThreads : CallSend(th)
    \/ CsReactor

SpecCallSync == InitCallSync /\ [][NextCallSync]_vars

\* The reactor keeps polling and a thread inside call() finishes it.
SpecCallSyncFair ==
    /\ InitCallSync
    /\ [][NextCallSync]_vars
    /\ WF_vars(CsReactor)
    /\ \A th \in CsThreads : WF_vars(CallSend(th))

Ids(seq) == [i \in 1..Len(seq) |-> seq[i].id]

IsPrefix(a, b) == Len(a) <= Len(b) /\ \A i \in 1..Len(a) : a[i] = b[i]

\* Every submitted function is either still queued or was run, once, by the
\* reactor thread, in the order of submission; no byte was received without a
\* function to run.
C7_Safe ==
    /\ enqLog = Ids(runLog) \o Ids(funs)
    /\ \A i, j \in 1..Len(runLog) : runLog[i].id = runLog[j].id => i = j
    /\ \A i \in 1..Len(runLog) : runLog[i].by = "reactor"
    /\ IsPrefix(Ids(runLog), enqLog)
    /\ ~emptyHit

\* C7: every function submitted with call_synchronized, from any thread, is
\* run exactly once, by the reactor thread, in the order of funs.put; no
\* wake-up byte is consumed without running a function; and while the reactor
\* keeps polling every queued function is eventually run.
C7_CallSynchronized ==
    /\ []C7_Safe
    /\ \A id \in FnIds : InSeq(enqLog, id) ~> InSeq(Ids(runLog), id)

\* Two threads have each submitted, and all their functions have run.
C7_Witness ==
    /\ Len(runLog) >= 3
    /\ \E i, j \in 1..Len(runLog) : runLog[i].id[1] # runLog[j].id[1]
    /\ funs = <<>>

----------------------------------------------------------------------------
(* Specification SpecInterrupt: external threads running start_interrupt,   *)
(* a change of the transport's writeable flag, and end_interrupt, while the *)
(* reactor thread runs poll in a loop (SocketMap.run) and may call close.   *)
(* The transport is connected and its socket can always be written to.      *)

Others == <<flagVars, csVars>>

\* The socket-map and a connected transport, with the handler bound.
InitMap ==
    /\ \E k \in Kinds :
         LET m == set_socket(Machine(NewTransport, NewMap(k)), FALSE) IN
         /\ tr = m.tr
         /\ sm = m.sm
    /\ hist = <<NoOp, NoOp>>
    /\ CsQuiet
    /\ LifeQuiet
    /\ SendQuiet
    /\ EeQuiet
    /\ DeferQuiet
    /\ toRecv = <<>>
    /\ toSend = 0
    /\ mpc = "idle"
    /\ interrupted = FALSE
    /\ needresp = FALSE
    /\ snap = FALSE
    /\ ready = FALSE
    /\ wdone = FALSE
    /\ atClose = {}

InitInterrupt ==
    /\ InitMap
    /\ ipc = [th \in IntThreads |-> "out"]
    /\ icf \in [IntThreads -> BOOLEAN]

\* start_interrupt is called.
StartInterrupt(th) ==
    /\ ipc[th] = "out"
    /\ LET plan == start_interrupt(sm.kind, icf[th]) IN
       /\ toRecv' = IF plan = "handshake" THEN Append(toRecv, "s") ELSE toRecv
       /\ needresp' = IF plan = "needresp" THEN TRUE ELSE needresp
       /\ ipc' = [ipc EXCEPT ![th] = IF plan = "handshake" THEN "s_wait" ELSE "in"]
    /\ UNCHANGED <<icf, toSend, mpc, interrupted, snap, ready, wdone, tr, sm, hist, csVars, atClose, lifeVars, sendVars, eeVars, deferVars>>

\* start_interrupt: self.controlsender.recv(1) returns.
StartAck(th) ==
    /\ ipc[th] = "s_wait"
    /\ toSend > 0
    /\ toSend' = toSend - 1
    /\ ipc' = [ipc EXCEPT ![th] = "in"]
    /\ UNCHANGED <<icf, toRecv, mpc, interrupted, needresp, snap, ready, wdone, tr, sm, hist, csVars, atClose, lifeVars, sendVars, eeVars, deferVars>>

\* Between start_interrupt and end_interrupt: transport.set_writeable(True).
Mutate(th) ==
    /\ ipc[th] = "in"
    /\ LET r == set_writeable(Machine(tr, sm), TRUE) IN
       /\ tr' = r.tr
       /\ sm' = r.sm
    /\ ipc' = [ipc EXCEPT ![th] = "mut"]
    /\ UNCHANGED <<icf, toRecv, toSend, mpc, interrupted, needresp, snap, ready, wdone, hist, csVars, atClose, lifeVars, sendVars, eeVars, deferVars>>

\* end_interrupt is called.
EndInterrupt(th) ==
    /\ ipc[th] = "mut"
    /\ LET plan == end_interrupt(sm.kind, icf[th]) IN
       /\ toRecv' = CASE plan = "release" -> Append(toRecv, "e")
                      [] plan = "handshake" -> Append(toRecv, "s")
                      [] OTHER -> toRecv
       /\ ipc' = [ipc EXCEPT ![th] = IF plan = "handshake" THEN "e_wait" ELSE "done"]
    /\ UNCHANGED <<icf, toSend, mpc, interrupted, needresp, snap, ready, wdone, tr, sm, hist, csVars, atClose, lifeVars, sendVars, eeVars, deferVars>>

\* RobustSocketMap.end_interrupt(True): self.controlsender.recv(1) returns.
EndAck(th) ==
    /\ ipc[th] = "e_wait"
    /\ toSend > 0
    /\ toSend' = toSend - 1
    /\ ipc' = [ipc EXCEPT ![th] = "e_got"]
    /\ UNCHANGED <<icf, toRecv, mpc, interrupted, needresp, snap, ready, wdone, tr, sm, hist, csVars, atClose, lifeVars, sendVars, eeVars, deferVars>>

\* RobustSocketMap.end_interrupt(True): self.controlsender.send(b('e')).
EndRelease(th) ==
    /\ ipc[th] = "e_got"
    /\ toRecv' = Append(toRecv, "e")
    /\ ipc' = [ipc EXCEPT ![th] = "done"]
    /\ UNCHANGED <<icf, toSend, mpc, interrupted, needresp, snap, ready, wdone, tr, sm, hist, csVars, atClose, lifeVars, sendVars, eeVars, deferVars>>

\* poll(None) is called on an open socket-map and blocks in the OS call.
PollEnter ==
    /\ mpc = "idle"
    /\ ~sm.closed
    /\ mpc' = "oswait"
    /\ snap' = WriteInterest(sm)
    /\ UNCHANGED <<ipc, icf, toRecv, toSend, interrupted, needresp, ready, wdone, tr, sm, hist, csVars, atClose, lifeVars, sendVars, eeVars, deferVars>>

\* The OS call returns what is ready: the control socket when it holds a
\* byte, the transport when it is watched for writing.
PollWake ==
    /\ mpc = "oswait"
    /\ toRecv # <<>> \/ WatchesWrite(sm, snap)
    /\ interrupted' = (toRecv # <<>>)
    /\ ready' = WatchesWrite(sm, snap)
    /\ mpc' = "dispatch"
    /\ UNCHANGED <<ipc, icf, toRecv, toSend, needresp, snap, wdone, tr, sm, hist, csVars, atClose, lifeVars, sendVars, eeVars, deferVars>>

\* The OS call returns by its timeout, with nothing ready.
PollTimeout ==
    /\ mpc = "oswait"
    /\ toRecv = <<>> /\ ~WatchesWrite(sm, snap)
    /\ interrupted' = FALSE
    /\ ready' = FALSE
    /\ mpc' = "dispatch"
    /\ UNCHANGED <<ipc, icf, toRecv, toSend, needresp, snap, wdone, tr, sm, hist, csVars, atClose, lifeVars, sendVars, eeVars, deferVars>>

\* The dispatch loop of poll: Notifier.write_obj for a writable transport;
\* the handler's handle_write notes the event and clears writeable.
Dispatch ==
    /\ mpc = "dispatch"
    /\ IF ready /\ tr.writeable
       THEN LET r == set_writeable(Machine(tr, sm), FALSE) IN
            /\ wdone' = TRUE
            /\ tr' = r.tr
            /\ sm' = r.sm
       ELSE UNCHANGED <<wdone, tr, sm>>
    /\ ready' = FALSE
    /\ mpc' = IF interrupted THEN "di_s" ELSE "idle"
    /\ UNCHANGED <<ipc, icf, toRecv, toSend, interrupted, needresp, snap, hist, csVars, atClose, lifeVars, sendVars, eeVars, deferVars>>

\* do_interrupt: self.controlreceiver.recv(1), "the 's' that started the
\* interrupt".
DoInterruptRecv ==
    /\ mpc = "di_s"
    /\ toRecv # <<>>
    /\ toRecv' = Tail(toRecv)
    /\ mpc' = "di_i"
    /\ UNCHANGED <<ipc, icf, toSend, interrupted, needresp, snap, ready, wdone, tr, sm, hist, csVars, atClose, lifeVars, sendVars, eeVars, deferVars>>

\* do_interrupt: self.controlreceiver.send(b('i'))
DoInterruptAck ==
    /\ mpc = "di_i"
    /\ toSend' = toSend + 1
    /\ mpc' = "di_e"
    /\ UNCHANGED <<ipc, icf, toRecv, interrupted, needresp, snap, ready, wdone, tr, sm, hist, csVars, atClose, lifeVars, sendVars, eeVars, deferVars>>

\* do_interrupt: self.controlreceiver.recv(1), "the 'e' that will end the
\* interrupt", returns with whatever byte is next; poll returns.
DoInterruptEnd ==
    /\ mpc = "di_e"
    /\ toRecv # <<>>
    /\ toRecv' = Tail(toRecv)
    /\ interrupted' = FALSE
    /\ mpc' = "idle"
    /\ UNCHANGED <<ipc, icf, toSend, needresp, snap, ready, wdone, tr, sm, hist, csVars, atClose, lifeVars, sendVars, eeVars, deferVars>>

\* The reactor thread calls close() between two polls.
MapClose ==
    /\ mpc = "idle"
    /\ ~sm.closed
    /\ toSend' = IF close_sends_i(sm.kind, needresp) THEN toSend + 1 ELSE toSend
    /\ needresp' = IF close_sends_i(sm.kind, needresp) THEN FALSE ELSE needresp
    /\ sm' = [sm EXCEPT !.closed = TRUE]
    /\ atClose' = {th \in IntThreads : ipc[th] \in Waiting}
    /\ UNCHANGED <<ipc, icf, toRecv, mpc, interrupted, snap, ready, wdone, tr, hist, csVars, lifeVars, sendVars, eeVars, deferVars>>

Worker(th) ==
    \/ StartInterrupt(th)
    \/ StartAck(th)
    \/ Mutate(th)
    \/ EndInterrupt(th)
    \/ EndAck(th)
    \/ EndRelease(th)

Reactor ==
    \/ PollEnter
    \/ PollWake
    \/ Dispatch
    \/ DoInterruptRecv
    \/ DoInterruptAck
    \/ DoInterruptEnd

NextInterrupt ==
    \/ \E th \in IntThreads : Worker(th)
    \/ Reactor
    \/ PollTimeout
    \/ MapClose

SpecInterrupt == InitInterrupt /\ [][NextInterrupt]_vars

\* One external thread, with either changeflags argument.
InitOneWorker ==
    /\ InitMap
    /\ ipc = [th \in IntThreads |-> IF th = "x1" THEN "out" ELSE "off"]
    /\ \E cf \in BOOLEAN : icf = [th \in IntThreads |-> cf]

\* The thread goes on when it can and the reactor thread keeps polling until
\* close() is called; a poll need not time out.
SpecCloseFair ==
    /\ InitOneWorker
    /\ [][NextInterrupt]_vars
    /\ \A th \in IntThreads : WF_vars(Worker(th))
    /\ WF_vars(Reactor)

\* C4 as stated, for a socket-map that close() has not been called on: while
\* a thread is between its return from start_interrupt() (changeflags=False)
\* and its call of end_interrupt(), the reactor thread is parked in
\* do_interrupt's second recv: it neither blocks in the OS call nor
\* dispatches events.
C4_ReactorParked ==
    \A th \in IntThreads :
        (ipc[th] \in {"in", "mut"} /\ ~icf[th] /\ ~sm.closed) => mpc = "di_e"

\* C5 as stated: a thread that waits for the 'i' of a handshake when close()
\* is called eventually leaves the handshake.
C5_CloseUnblocks ==
    \A th \in IntThreads :
        (th \in atClose) ~> (ipc[th] \notin Waiting)

----------------------------------------------------------------------------
(* Specification SpecChangeFlags: one worker thread runs                    *)
(* start_interrupt(True); transport.set_writeable(True);                    *)
(* end_interrupt(True) while the reactor thread runs poll in a loop.        *)

InitChangeFlags ==
    /\ InitMap
    /\ ipc = [th \in IntThreads |-> IF th = "x1" THEN "out" ELSE "off"]
    /\ icf = [th \in IntThreads |-> TRUE]

NextChangeFlags ==
    \/ \E th \in IntThreads : Worker(th)
    \/ Reactor
    \/ PollTimeout

SpecChangeFlags ==
    /\ InitChangeFlags
    /\ [][NextChangeFlags]_vars
    /\ \A th \in IntThreads : WF_vars(Worker(th))
    /\ WF_vars(Reactor)

\* C6: on every backend the worker's end_interrupt(True) eventually returns
\* and the reactor eventually dispatches handle_write to the handler of the
\* transport the worker made writeable.
C6_ChangeFlagsWakesReactor ==
    /\ <>(ipc["x1"] = "done")
    /\ <>wdone

\* handle_write was dispatched on the poll backend after the worker's
\* handshake in end_interrupt(True).
C6_Witness ==
    /\ sm.kind = "poll"
    /\ ipc["x1"] = "done"
    /\ wdone

----------------------------------------------------------------------------
(* The reactor thread: one poll iteration after the other, the Notifier,   *)
(* the Transport's handle_close / handle_cleanup and the handler's          *)
(* callbacks, which may call back into the transport (recv, send, close).   *)
(* The thread's call stack is explicit; a frame is [fn, pc, todo].  hist is *)
(* the sequence of handler callbacks since the application called poll or   *)
(* close, with "close returned" / "map closed" where the close calls        *)
(* return; count counts the lifecycle callbacks of the whole run.           *)

\* Poll iterations of one run.
MaxPolls == 2

\* Transport methods the handler calls from inside its callbacks in one run.
MaxNested == 1

\* The count at which counting a callback stops.
MaxCount == 2

Lifecycle == {"handle_connect", "handle_connect_failed", "handle_close",
              "handle_cleanup"}

Counted(cb) == [count EXCEPT ![cb] = IF @ < MaxCount THEN @ + 1 ELSE @]

Frame(fn, pc, todo) == [fn |-> fn, pc |-> pc, todo |-> todo]

Call(fn) == Frame(fn, "start", <<>>)

Top == stack[Len(stack)]

Pop == SubSeq(stack, 1, Len(stack) - 1)

Goto(pc) == [stack EXCEPT ![Len(stack)].pc = pc]

Running(fn) == stack /= <<>> /\ Top.fn = fn

\* Transport.handle_<cb>: hand the event to the bound handler.
Deliver(stk, cb) == Append(stk, Frame("handler", cb, <<>>))

\* util.is_closed: recv(1, MSG_PEEK) returns no data.
is_closed(st) == st = "peerclosed"

\* The peer has closed the connection: the socket is at end of file
\* ("peerclosed"), or holds data the peer sent before it closed ("peerdata").
PeerGone == {"peerclosed", "peerdata"}

\* The conditions the operating system can report for the socket.
Conditions(st) ==
    CASE st = "connected" -> {"IN", "OUT", "PRI"}
      [] st \in PeerGone -> {"IN", "OUT", "PRI", "HUP", "ERR"}
      [] st \in {"failed", "refused"} -> {"IN", "OUT", "HUP", "ERR"}
      [] OTHER -> {}

Opt(c, tok) == IF c THEN <<tok>> ELSE <<>>

\* The sets of conditions one OS call can report out of those it watches:
\* unread data or end of file left by a peer that has closed is reported by
\* every call that watches for reading.
Reported(can, st) ==
    {F \in SUBSET can :
        F /= {} /\ (st \in PeerGone /\ "IN" \in can => "IN" \in F)}

PollTodos_unregistered(s, st) ==
    CASE s.kind = "select" ->
            LET can == Conditions(st) \cap
                         ({"IN", "PRI"}
                          \cup (IF InSeq(s.writers, "t") THEN {"OUT"} ELSE {}))
            IN  {Opt("IN" \in F, "IN") \o Opt("OUT" \in F, "OUT")
                   \o Opt("PRI" \in F, "PRI") : F \in Reported(can, st)}
      [] s.kind = "kqueue" ->
            IF Conditions(st) = {} THEN {}
            ELSE LET eof == IF "HUP" \in Conditions(st) THEN BOOLEAN ELSE {FALSE}
                     rd == {<<"READ">> \o Opt(e, "HUP")
                              : e \in IF st \in PeerGone THEN {TRUE} ELSE eof}
                     wr == IF s.kqwrite
                           THEN {<<"OUT">> \o Opt(e, "HUP") : e \in eof} ELSE {}
                 IN  rd \cup (IF st \in PeerGone /\ rd /= {} THEN {} ELSE wr)
                        \cup {r \o w : r \in rd, w \in wr}
                        \cup {w \o r : r \in rd, w \in wr}
      [] OTHER ->
            {Opt(F \cap {"IN", "PRI"} /= {}, "IN") \o Opt("OUT" \in F, "OUT")
               \o Opt("PRI" \in F, "PRI")
               \o Opt(F \cap {"HUP", "ERR", "NVAL"} /= {}, "HUP")
             : F \in Reported(Conditions(st) \cap s.mask, st)}

\* The Notifier calls one poll iteration makes for the transport, in order.
\* select: the read, write and expt lists.  poll, epoll: the four tests on
\* the flags of the transport's fileno.  kqueue: one event per filter, in
\* either order, with or without KQ_EV_EOF; the read filter of a socket
\* whose peer has closed reports with KQ_EV_EOF.
PollTodos(s, st) ==
    CASE s.kind = "select" ->
            LET can == Conditions(st) \cap
                         ((IF InSeq(s.socket_list, "t") THEN {"IN", "PRI"} ELSE {})
                          \cup (IF InSeq(s.writers, "t") THEN {"OUT"} ELSE {}))
            IN  {Opt("IN" \in F, "IN") \o Opt("OUT" \in F, "OUT")
                   \o Opt("PRI" \in F, "PRI") : F \in Reported(can, st)}
      [] s.kind = "kqueue" ->
            IF Conditions(st) = {} THEN {}
            ELSE LET eof == IF "HUP" \in Conditions(st) THEN BOOLEAN ELSE {FALSE}
                     rd == IF InSeq(s.socket_list, "t")
                           THEN {<<"READ">> \o Opt(e, "HUP")
                                   : e \in IF st \in PeerGone THEN {TRUE} ELSE eof}
                           ELSE {}
                     wr == IF s.kqwrite
                           THEN {<<"OUT">> \o Opt(e, "HUP") : e \in eof} ELSE {}
                 IN  rd \cup (IF st \in PeerGone /\ rd /= {} THEN {} ELSE wr)
                        \cup {r \o w : r \in rd, w \in wr}
                        \cup {w \o r : r \in rd, w \in wr}
      [] OTHER ->
            IF ~s.inpoller THEN {}
            ELSE {Opt(F \cap {"IN", "PRI"} /= {}, "IN") \o Opt("OUT" \in F, "OUT")
                    \o Opt("PRI" \in F, "PRI")
                    \o Opt(F \cap {"HUP", "ERR", "NVAL"} /= {}, "HUP")
                  : F \in Reported(Conditions(st) \cap s.mask, st)}

\* The Notifier method the poll loop calls for a readiness token.
Dispatched(tok, t, st) ==
    CASE tok = "IN" -> IF t.connected /\ is_closed(st) THEN "close_obj" ELSE "read_obj"
      [] tok = "READ" -> "read_obj"
      [] tok = "OUT" -> "write_obj"
      [] tok = "PRI" -> "except_obj"
      [] OTHER -> "close_obj"

Catches_finally(f) ==
    f.fn \in {"handle_close", "handle_cleanup"} /\ f.pc = "after"

\* The frames and places that catch an exception (except Exception), or
\* run a finally block.
Catches(f) ==
    \/ f.fn \in {"read_obj", "write_obj", "except_obj", "cleanup_obj", "_unawait_conn"}
       /\ f.pc = "ret"
    \/ f.fn = "close_obj" /\ f.pc \in {"hc_ret", "cu_ret"}
    \/ f.fn \in {"handle_close", "handle_cleanup"} /\ f.pc = "after"

\* except Exception: obj.handle_error()
Caught == IF exc THEN Append(hist, "handle_error") ELSE hist

\* A handler is bound to a new transport whose socket is connecting or is
\* already connected.
InitLife ==
    /\ \E k \in Kinds, unconnected \in BOOLEAN :
         LET m == set_socket(Machine(NewTransport, NewMap(k)), unconnected) IN
         /\ tr = bind_handler(m.tr)
         /\ sm = m.sm
         /\ sock = IF unconnected THEN "connecting" ELSE "connected"
    /\ hist = <<>>
    /\ stack = <<>>
    /\ exc = FALSE
    /\ used = 0
    /\ polls = 0
    /\ count = [cb \in Lifecycle |-> 0]
    /\ removed = FALSE
    /\ CsQuiet
    /\ IntQuiet
    /\ SendQuiet
    /\ EeQuiet
    /\ DeferQuiet

\* The operating system: the connect succeeds or fails, the peer closes.
\* The reactor thread looks at the socket in poll and in the handler's
\* callbacks; a peer that closes elsewhere is seen as closing there.
ConnectSucceeds ==
    /\ sock = "connecting"
    /\ sock' = "connected"
    /\ UNCHANGED <<tr, sm, hist, stack, exc, used, polls, count, removed, csVars, intVars, sendVars, eeVars, deferVars>>

ConnectFails ==
    /\ sock = "connecting"
    /\ sock' = "failed"
    /\ UNCHANGED <<tr, sm, hist, stack, exc, used, polls, count, removed, csVars, intVars, sendVars, eeVars, deferVars>>

PeerCloses ==
    /\ sock = "connected"
    /\ IF stack = <<>> THEN TRUE ELSE Top.fn \in {"poll", "handler"}
    /\ sock' \in PeerGone
    /\ UNCHANGED <<tr, sm, hist, stack, exc, used, polls, count, removed, csVars, intVars, sendVars, eeVars, deferVars>>

\* The application, between poll iterations: the interest flags,
\* transport.close() and the socket-map's close().
UserSetReadable(v) ==
    /\ stack = <<>> /\ sock /= "closed" /\ ~sm.closed
    /\ LET r == set_readable(Machine(tr, sm), v) IN tr' = r.tr /\ sm' = r.sm
    /\ removed' = FALSE
    /\ hist' = <<>>
    /\ UNCHANGED <<stack, exc, sock, used, polls, count, csVars, intVars, sendVars, eeVars, deferVars>>

UserSetWriteable(v) ==
    /\ stack = <<>> /\ sock /= "closed" /\ ~sm.closed
    /\ LET r == set_writeable(Machine(tr, sm), v) IN tr' = r.tr /\ sm' = r.sm
    /\ removed' = FALSE
    /\ hist' = <<>>
    /\ UNCHANGED <<stack, exc, sock, used, polls, count, csVars, intVars, sendVars, eeVars, deferVars>>

\* The application takes the transport out of the socket-map.
UserDelTransport ==
    /\ stack = <<>> /\ sock /= "closed" /\ ~sm.closed
    /\ LET r == del_transport(Machine(tr, sm)) IN
       /\ tr' = r.tr
       /\ sm' = r.sm
       /\ removed' = IF r.exc THEN removed ELSE TRUE
       /\ hist' = IF r.exc THEN <<"del_transport raised">>
                  ELSE <<"del_transport returned">>
    /\ UNCHANGED <<stack, exc, sock, used, polls, count, csVars, intVars, sendVars, eeVars, deferVars>>

UserClose ==
    /\ stack = <<>>
    /\ stack' = <<Call("close")>>
    /\ hist' = <<>>
    /\ UNCHANGED <<tr, sm, exc, sock, used, polls, count, removed, csVars, intVars, sendVars, eeVars, deferVars>>

UserMapClose ==
    /\ stack = <<>>
    /\ stack' = <<Call("map_close")>>
    /\ hist' = <<>>
    /\ UNCHANGED <<tr, sm, exc, sock, used, polls, count, removed, csVars, intVars, sendVars, eeVars, deferVars>>

\* The peer of the connected transport, which the socket-map holds, has
\* closed the connection.
PeerClosedBefore ==
    /\ sock \in PeerGone
    /\ tr.connected /\ ~tr.awaiting_connect /\ ~tr.closed
    /\ InSeq(sm.socket_list, "t")
    /\ sm.kind \in {"poll", "epoll"} => sm.inpoller

\* poll(): the OS call returns with events for the transport.
Poll ==
    /\ stack = <<>> /\ ~sm.closed
    /\ polls < MaxPolls
    /\ \E todo \in PollTodos(sm, sock) : stack' = <<Frame("poll", "loop", todo)>>
    /\ polls' = polls + 1
    /\ hist' = IF PeerClosedBefore THEN <<"peer closed">> ELSE <<>>
    /\ UNCHANGED <<tr, sm, exc, sock, used, count, removed, csVars, intVars, sendVars, eeVars, deferVars>>

\* poll(): the OS call returns with no event for the transport, which the
\* socket-map does not watch.
PollIdle ==
    /\ stack = <<>> /\ ~sm.closed
    /\ PollTodos(sm, sock) = {}
    /\ hist' = <<"no event">>
    /\ UNCHANGED <<tr, sm, stack, exc, sock, used, polls, count, removed, csVars, intVars, sendVars, eeVars, deferVars>>

\* poll() on a closed socket-map: raise SocketMapClosedError.
PollClosed ==
    /\ stack = <<>> /\ sm.closed
    /\ hist' = <<"SocketMapClosedError">>
    /\ UNCHANGED <<tr, sm, stack, exc, sock, used, polls, count, removed, csVars, intVars, sendVars, eeVars, deferVars>>

\* poll(): the dispatch loop.  kqueue looks the transport up in socket_list
\* for every event, which raises KeyError once the transport is gone.
PollLoop ==
    /\ Running("poll") /\ ~exc
    /\ IF Top.todo = <<>> THEN stack' = Pop /\ exc' = exc
       ELSE IF /\ sm.kind = "kqueue" /\ Head(Top.todo) \in {"READ", "OUT"}
               /\ ~InSeq(sm.socket_list, "t")
       THEN stack' = stack /\ exc' = TRUE
       ELSE /\ stack' = Append([stack EXCEPT ![Len(stack)].todo = Tail(@)],
                               Call(Dispatched(Head(Top.todo), tr, sock)))
            /\ exc' = exc
    /\ UNCHANGED <<tr, sm, hist, sock, used, polls, count, removed, csVars, intVars, sendVars, eeVars, deferVars>>

\* An exception leaves a frame that does not catch it; when it leaves the
\* outermost frame it reaches the application.
Unwind ==
    /\ exc /\ stack /= <<>> /\ ~Catches(Top)
    /\ stack' = Pop
    /\ exc' = (Len(stack) > 1)
    /\ hist' = IF Top.fn = "handler" THEN Append(hist, "raised") ELSE hist
    /\ UNCHANGED <<tr, sm, sock, used, polls, count, removed, csVars, intVars, sendVars, eeVars, deferVars>>

\* Notifier.read_obj
ReadObj ==
    /\ Running("read_obj")
    /\ CASE Top.pc = "start" /\ tr.awaiting_connect ->
                /\ ~exc
                /\ stack' = Append(Goto("chk"), Call("_unawait_conn"))
                /\ UNCHANGED <<hist, exc>>
         [] Top.pc \in {"start", "chk"} /\ ~(Top.pc = "start" /\ tr.awaiting_connect) ->
                /\ ~exc
                /\ IF ~tr.readable
                   THEN stack' = Pop /\ hist' = hist
                   ELSE /\ stack' = Deliver(Goto("ret"), "handle_read")
                        /\ hist' = Append(hist, "handle_read")
                /\ exc' = exc
         [] OTHER ->
                /\ stack' = Pop
                /\ hist' = Caught
                /\ exc' = FALSE
    /\ UNCHANGED <<tr, sm, sock, used, polls, count, removed, csVars, intVars, sendVars, eeVars, deferVars>>

\* Notifier.write_obj
WriteObj ==
    /\ Running("write_obj")
    /\ CASE Top.pc = "start" /\ tr.awaiting_connect ->
                /\ ~exc
                /\ stack' = Append(Goto("chk"), Call("_unawait_conn"))
                /\ UNCHANGED <<hist, exc>>
         [] Top.pc \in {"start", "chk"} /\ ~(Top.pc = "start" /\ tr.awaiting_connect) ->
                /\ ~exc
                /\ IF ~tr.writeable
                   THEN stack' = Pop /\ hist' = hist
                   ELSE /\ stack' = Deliver(Goto("ret"), "handle_write")
                        /\ hist' = Append(hist, "handle_write")
                /\ exc' = exc
         [] OTHER ->
                /\ stack' = Pop
                /\ hist' = Caught
                /\ exc' = FALSE
    /\ UNCHANGED <<tr, sm, sock, used, polls, count, removed, csVars, intVars, sendVars, eeVars, deferVars>>

\* Notifier.except_obj; reading SO_ERROR for handle_except's argument clears
\* a pending error, and raises on a closed socket, inside the try block:
\* handle_error is called in place of handle_except ("getsockopt error").
ExceptObj ==
    /\ Running("except_obj")
    /\ CASE Top.pc = "start" /\ tr.awaiting_connect ->
                /\ ~exc
                /\ stack' = Append(Goto("chk"), Call("_unawait_conn"))
                /\ UNCHANGED <<hist, exc, sock>>
         [] Top.pc \in {"start", "chk"} /\ ~(Top.pc = "start" /\ tr.awaiting_connect) ->
                /\ ~exc
                /\ IF sock = "closed"
                   THEN /\ stack' = Pop
                        /\ hist' = Append(hist, "getsockopt error")
                   ELSE /\ stack' = Deliver(Goto("ret"), "handle_except")
                        /\ hist' = Append(hist, "handle_except")
                /\ sock' = IF sock = "failed" THEN "refused" ELSE sock
                /\ exc' = exc
         [] OTHER ->
                /\ stack' = Pop
                /\ hist' = Caught
                /\ exc' = FALSE
                /\ sock' = sock
    /\ UNCHANGED <<tr, sm, used, polls, count, removed, csVars, intVars, sendVars, eeVars, deferVars>>

\* Notifier.close_obj
CloseObj ==
    /\ Running("close_obj")
    /\ CASE Top.pc = "start" /\ tr.awaiting_connect ->
                /\ ~exc
                /\ stack' = Append(Goto("hc"), Call("_unawait_conn"))
                /\ UNCHANGED <<hist, exc>>
         [] Top.pc \in {"start", "hc"} /\ ~(Top.pc = "start" /\ tr.awaiting_connect) ->
                /\ ~exc
                /\ stack' = Append(Goto("hc_ret"), Call("handle_close"))
                /\ UNCHANGED <<hist, exc>>
         [] Top.pc = "hc_ret" ->
                /\ stack' = Append(Goto("cu_ret"), Call("handle_cleanup"))
                /\ hist' = Caught
                /\ exc' = FALSE
         [] OTHER ->
                /\ stack' = Pop
                /\ hist' = Caught
                /\ exc' = FALSE
    /\ UNCHANGED <<tr, sm, sock, used, polls, count, removed, csVars, intVars, sendVars, eeVars, deferVars>>

\* Notifier.cleanup_obj
CleanupObj ==
    /\ Running("cleanup_obj")
    /\ IF Top.pc = "start"
       THEN /\ ~exc
            /\ stack' = Append(Goto("ret"), Call("handle_cleanup"))
            /\ UNCHANGED <<hist, exc>>
       ELSE /\ stack' = Pop
            /\ hist' = Caught
            /\ exc' = FALSE
    /\ UNCHANGED <<tr, sm, sock, used, polls, count, removed, csVars, intVars, sendVars, eeVars, deferVars>>

\* _unawait_conn
UnawaitConn ==
    /\ Running("_unawait_conn")
    /\ IF Top.pc = "start"
       THEN /\ ~exc
            /\ LET m == stop_awaiting_connect(Machine(tr, sm)) IN
               /\ sm' = m.sm
               /\ IF m.exc
                  THEN /\ tr' = m.tr
                       /\ exc' = TRUE
                       /\ stack' = Pop
                       /\ UNCHANGED <<hist, sock, count>>
                  ELSE IF sock = "failed"
                  THEN /\ tr' = [m.tr EXCEPT !.connected = FALSE]
                       /\ sock' = "refused"
                       /\ stack' = Deliver(Goto("ret"), "handle_connect_failed")
                       /\ hist' = Append(hist, "handle_connect_failed")
                       /\ count' = Counted("handle_connect_failed")
                       /\ exc' = exc
                  ELSE /\ tr' = [m.tr EXCEPT !.connected = TRUE]
                       /\ stack' = Deliver(Goto("ret"), "handle_connect")
                       /\ hist' = Append(hist, "handle_connect")
                       /\ count' = Counted("handle_connect")
                       /\ UNCHANGED <<exc, sock>>
       ELSE /\ stack' = Pop
            /\ hist' = Caught
            /\ exc' = FALSE
            /\ UNCHANGED <<tr, sm, sock, count>>
    /\ UNCHANGED <<used, polls, removed, csVars, intVars, sendVars, eeVars, deferVars>>

\* Transport.handle_close: the handler is called if self.closed is not set;
\* self.closed is set when the handler has returned or raised.
HandleClose ==
    /\ Running("handle_close")
    /\ IF Top.pc = "start" /\ ~tr.closed
       THEN /\ ~exc
            /\ stack' = Deliver(Goto("after"), "handle_close")
            /\ hist' = Append(hist, "handle_close")
            /\ count' = Counted("handle_close")
            /\ tr' = tr
       ELSE /\ Top.pc = "start" => ~exc
            /\ stack' = Pop
            /\ tr' = [tr EXCEPT !.closed = TRUE]
            /\ UNCHANGED <<hist, count>>
    /\ UNCHANGED <<sm, exc, sock, used, polls, removed, csVars, intVars, sendVars, eeVars, deferVars>>

\* Transport.handle_cleanup, likewise with self.cleanedup.
HandleCleanup ==
    /\ Running("handle_cleanup")
    /\ IF Top.pc = "start" /\ ~tr.cleanedup
       THEN /\ ~exc
            /\ stack' = Deliver(Goto("after"), "handle_cleanup")
            /\ hist' = Append(hist, "handle_cleanup")
            /\ count' = Counted("handle_cleanup")
            /\ tr' = tr
       ELSE /\ Top.pc = "start" => ~exc
            /\ stack' = Pop
            /\ tr' = [tr EXCEPT !.cleanedup = TRUE]
            /\ UNCHANGED <<hist, count>>
    /\ UNCHANGED <<sm, exc, sock, used, polls, removed, csVars, intVars, sendVars, eeVars, deferVars>>

\* SocketTransport.close: del_transport, connected = False, socket.close()
\* and, in the finally block, notifier.cleanup_obj.
TransportClose ==
    /\ Running("close") /\ ~exc
    /\ IF Top.pc = "start"
       THEN LET m == del_transport(Machine(tr, sm)) IN
            /\ sm' = m.sm
            /\ IF m.exc
               THEN /\ tr' = m.tr
                    /\ exc' = TRUE
                    /\ stack' = Pop
                    /\ sock' = sock
               ELSE /\ tr' = [m.tr EXCEPT !.connected = FALSE]
                    /\ sock' = "closed"
                    /\ stack' = Append(Goto("ret"), Call("cleanup_obj"))
                    /\ exc' = exc
            /\ hist' = hist
       ELSE /\ stack' = Pop
            /\ hist' = Append(hist, "close returned")
            /\ UNCHANGED <<tr, sm, exc, sock>>
    /\ UNCHANGED <<used, polls, count, removed, csVars, intVars, sendVars, eeVars, deferVars>>

\* The attributes the socket-map's close() leaves behind.
Closed(s) ==
    CASE s.kind = "select" ->
            [s EXCEPT !.writers = <<>>, !.socket_list = <<>>, !.closed = TRUE]
      [] s.kind = "poll" -> [s EXCEPT !.socket_list = <<>>, !.closed = TRUE]
      [] s.kind = "epoll" -> [s EXCEPT !.pclosed = TRUE, !.closed = TRUE]
      [] OTHER -> [s EXCEPT !.closed = TRUE]

\* What close() does before it walks socket_list: kqueue closes its queue,
\* poll runs RobustSocketMap.close, which ends in SocketMap.close.
Closing(s) ==
    CASE s.kind = "kqueue" -> [s EXCEPT !.pclosed = TRUE]
      [] s.kind = "poll" -> [s EXCEPT !.closed = TRUE]
      [] OTHER -> s

\* close() of the four socket-maps: cleanup_obj for every transport in
\* socket_list.  select walks a copy of the list; the others walk the dict,
\* and the walk raises RuntimeError when the dict has changed under it.
SocketMapClose ==
    /\ Running("map_close") /\ ~exc
    /\ IF Top.pc = "start" /\ InSeq(sm.socket_list, "t")
       THEN /\ stack' = Append(Goto("next"), Call("cleanup_obj"))
            /\ sm' = Closing(sm)
            /\ UNCHANGED <<hist, exc>>
       ELSE IF Top.pc = "next" /\ sm.kind /= "select" /\ ~InSeq(sm.socket_list, "t")
       THEN /\ stack' = Pop
            /\ exc' = TRUE
            /\ UNCHANGED <<hist, sm>>
       ELSE /\ stack' = Pop
            /\ sm' = Closed(Closing(sm))
            /\ hist' = IF Top.pc = "next" THEN Append(hist, "map closed") ELSE hist
            /\ exc' = exc
    /\ UNCHANGED <<tr, sock, used, polls, count, removed, csVars, intVars, sendVars, eeVars, deferVars>>

\* The handler's callback returns, or raises.
HandlerReturns ==
    /\ Running("handler") /\ ~exc
    /\ stack' = Pop
    /\ UNCHANGED <<tr, sm, hist, exc, sock, used, polls, count, removed, csVars, intVars, sendVars, eeVars, deferVars>>

HandlerRaises ==
    /\ Running("handler") /\ ~exc
    /\ stack' = Pop
    /\ exc' = TRUE
    /\ hist' = Append(hist, "raised")
    /\ UNCHANGED <<tr, sm, sock, used, polls, count, removed, csVars, intVars, sendVars, eeVars, deferVars>>

\* The callback calls transport.recv or transport.send: no data from, or
\* EPIPE on, a socket the peer has closed calls notifier.close_obj; recv
\* takes the data the peer left; a closed socket raises EBADF.
HandlerRecvSend ==
    /\ Running("handler") /\ ~exc
    /\ used < MaxNested
    /\ sock \in PeerGone \cup {"closed"}
    /\ used' = used + 1
    /\ \/ /\ sock \in PeerGone
          /\ stack' = Append(stack, Call("close_obj"))
          /\ UNCHANGED <<exc, sock>>
       \/ /\ sock = "peerdata"
          /\ sock' = "peerclosed"
          /\ UNCHANGED <<exc, stack>>
       \/ /\ sock = "closed"
          /\ exc' = TRUE
          /\ UNCHANGED <<stack, sock>>
    /\ UNCHANGED <<tr, sm, hist, polls, count, removed, csVars, intVars, sendVars, eeVars, deferVars>>

\* The callback calls transport.close().
HandlerClose ==
    /\ Running("handler") /\ ~exc
    /\ used < MaxNested
    /\ used' = used + 1
    /\ stack' = Append(stack, Call("close"))
    /\ UNCHANGED <<tr, sm, hist, exc, sock, polls, count, removed, csVars, intVars, sendVars, eeVars, deferVars>>

NextLife ==
    \/ ConnectSucceeds \/ ConnectFails \/ PeerCloses
    \/ \E v \in BOOLEAN : UserSetReadable(v)
    \/ \E v \in BOOLEAN : UserSetWriteable(v)
    \/ UserClose \/ UserMapClose \/ UserDelTransport
    \/ Poll \/ PollIdle \/ PollClosed \/ PollLoop \/ Unwind
    \/ ReadObj \/ WriteObj \/ ExceptObj \/ CloseObj \/ CleanupObj \/ UnawaitConn
    \/ HandleClose \/ HandleCleanup \/ TransportClose \/ SocketMapClose
    \/ HandlerReturns \/ HandlerRaises
    \/ HandlerRecvSend \/ HandlerClose

SpecLife == InitLife /\ [][NextLife]_vars

----------------------------------------------------------------------------
(* Specification SpecBind: SpecLife from before the transport is made.  The *)
(* application makes a SocketTransport over a socket that is connecting or  *)
(* is already connected, binds a Handler to it, and goes on as in SpecLife. *)

InitBind ==
    /\ \E k \in Kinds : sm = NewMap(k)
    /\ tr = NewTransport
    /\ sock \in {"connecting", "connected"}
    /\ hist = <<>>
    /\ stack = <<>>
    /\ exc = FALSE
    /\ used = 0
    /\ polls = 0
    /\ count = [cb \in Lifecycle |-> 0]
    /\ removed = FALSE
    /\ CsQuiet
    /\ IntQuiet
    /\ SendQuiet
    /\ EeQuiet
    /\ DeferQuiet

\* SocketTransport(socket_map, sock)
NewSocketTransport ==
    /\ ~tr.socket
    /\ LET m == set_socket(Machine(tr, sm), sock = "connecting") IN
       /\ tr' = m.tr
       /\ sm' = m.sm
       /\ hist' = m.calls
       /\ count' = IF InSeq(m.calls, "handle_connect")
                   THEN Counted("handle_connect") ELSE count
    /\ UNCHANGED <<stack, exc, sock, used, polls, removed, csVars, intVars, sendVars, eeVars, deferVars>>

\* Handler(transport)
BindHandler ==
    /\ tr.socket /\ ~tr.handler
    /\ tr' = bind_handler(tr)
    /\ hist' = <<>>
    /\ UNCHANGED <<sm, stack, exc, sock, used, polls, count, removed, csVars, intVars, sendVars, eeVars, deferVars>>

NextBind ==
    \/ NewSocketTransport
    \/ BindHandler
    \/ (tr.socket /\ tr.handler /\ NextLife)

SpecBind == InitBind /\ [][NextBind]_vars

----------------------------------------------------------------------------
(* Specification SpecResocket: SpecLife with an application that also gives *)
(* the transport another socket, connecting or connected, before the first  *)
(* poll iteration.                                                          *)

\* transport.set_socket(sock)
UserSetSocket(unconnected) ==
    /\ stack = <<>> /\ sock /= "closed" /\ ~sm.closed
    /\ polls = 0
    /\ LET r == set_socket(Machine(tr, sm), unconnected) IN
       /\ tr' = r.tr
       /\ sm' = r.sm
       /\ sock' = IF r.exc THEN sock
                  ELSE IF unconnected THEN "connecting" ELSE "connected"
       /\ count' = IF InSeq(r.calls, "handle_connect")
                   THEN Counted("handle_connect") ELSE count
       /\ removed' = IF r.exc THEN removed ELSE FALSE
       /\ hist' = IF r.exc THEN <<"set_socket raised">>
                  ELSE <<"set_socket returned">>
    /\ UNCHANGED <<stack, exc, used, polls, csVars, intVars, sendVars, eeVars, deferVars>>

NextResocket ==
    \/ \E unconnected \in BOOLEAN : UserSetSocket(unconnected)
    \/ NextLife

SpecResocket == InitLife /\ [][NextResocket]_vars

\* C19: a handler bound to a transport that is connected, whether its socket
\* was connected before the transport was made or connected later, has had
\* its handle_connect invoked exactly once.
C19_HandleConnectOnce ==
    (tr.handler /\ tr.connected) => count["handle_connect"] = 1

\* C1: the handler's handle_close is invoked at most once, whatever close
\* dispatches happen, those made while handle_close is running included.
C1_CloseAtMostOnce == count["handle_close"] <= 1

\* C2: the handler's handle_cleanup is never invoked a second time, and it
\* has been invoked exactly once when Transport.close() has returned or the
\* socket-map's close() has returned for a transport it still held.
C2_CleanupExactlyOnce ==
    /\ count["handle_cleanup"] <= 1
    /\ (InSeq(hist, "close returned") \/ InSeq(hist, "map closed"))
           => count["handle_cleanup"] = 1

\* C3: a handler whose connect failed, and which calls nothing back, gets
\* handle_connect_failed and neither handle_connect nor handle_close.
C3_ConnectFailedOnly ==
    (used = 0 /\ count["handle_connect_failed"] > 0)
        => (count["handle_connect"] = 0 /\ count["handle_close"] = 0)

Rank(cb) ==
    CASE cb = "handle_read" -> 1
      [] cb = "handle_write" -> 2
      [] cb = "handle_except" -> 3
      [] cb = "handle_close" -> 4
      [] OTHER -> 0

\* C9: on select, poll and epoll the events one poll iteration delivers to
\* a handler that calls nothing back come in the order read, write, except,
\* close.
C9_DispatchOrder ==
    (sm.kind \in {"select", "poll", "epoll"} /\ used = 0)
        => \A i, j \in 1..Len(hist) :
              (i < j /\ Rank(hist[i]) > 0 /\ Rank(hist[j]) > 0)
                  => Rank(hist[i]) <= Rank(hist[j])

\* The callbacks of Handler.
Callbacks ==
    {"handle_read", "handle_write", "handle_except", "handle_connect",
     "handle_connect_failed", "handle_close", "handle_cleanup", "handle_error"}

InStack(fn) == \E i \in 1..Len(stack) : stack[i].fn = fn

\* The Notifier methods that run for a readiness event.
Dispatches == {"read_obj", "write_obj", "except_obj", "close_obj"}

\* C33: connected and awaiting_connect are never both set; in a poll
\* iteration, a Notifier call for a transport that awaits its connect has
\* cleared awaiting_connect before it does anything else, and the step that
\* clears it invokes exactly one of handle_connect, with SO_ERROR 0 and
\* connected set, and handle_connect_failed, with SO_ERROR set and connected
\* not set; no other step of a poll iteration invokes either.
C33_ConnectResolvedOnce ==
    /\ [](/\ ~(tr.connected /\ tr.awaiting_connect)
          /\ (InStack("poll") /\ tr.awaiting_connect) =>
                \A i \in 1..Len(stack) :
                    (stack[i].fn \in Dispatches /\ stack[i].pc /= "start") =>
                        (i + 1 = Len(stack) /\ Top = Call("_unawait_conn")))
    /\ [][/\ (InStack("poll") /\ tr.awaiting_connect /\ ~tr'.awaiting_connect) =>
               \/ /\ count' = Counted("handle_connect")
                  /\ tr'.connected /\ sock /= "failed"
                  /\ Running("handler")' /\ Top'.pc = "handle_connect"
               \/ /\ count' = Counted("handle_connect_failed")
                  /\ ~tr'.connected /\ sock = "failed"
                  /\ Running("handler")' /\ Top'.pc = "handle_connect_failed"
          /\ (InStack("poll") /\ ~(tr.awaiting_connect /\ ~tr'.awaiting_connect)) =>
               /\ count'["handle_connect"] = count["handle_connect"]
               /\ count'["handle_connect_failed"] = count["handle_connect_failed"]
               /\ ~(Running("handler")' /\ Len(stack') > Len(stack)
                      /\ Top'.pc \in {"handle_connect", "handle_connect_failed"})
         ]_vars

\* C12: once the socket-map is closed no poll dispatches anything, and when
\* close() has returned, a second time included, the handler of the
\* transport it held has had handle_cleanup exactly once.
C12_ClosedForGood ==
    /\ sm.closed => ~InStack("poll")
    /\ InSeq(hist, "map closed") => count["handle_cleanup"] = 1

\* C40: once the transport's close() has returned, the handler gets no
\* handle_read, handle_write, handle_except or handle_close: not in what is
\* left of the poll iteration close() was called in, nor in a later one.
C40_NoDispatchAfterClose ==
    /\ \A i, j \in 1..Len(hist) :
          (i < j /\ hist[i] = "close returned") => Rank(hist[j]) = 0
    /\ (sock = "closed" /\ ~InStack("close") /\ ~InSeq(hist, "close returned"))
          => \A i \in 1..Len(hist) : Rank(hist[i]) = 0

\* C14: once del_transport has returned, no poll dispatches handle_write or
\* any other event to the handler, however many polls follow and whatever
\* the state of the socket.
C14_NoDispatchAfterRemoval ==
    removed =>
        /\ PollTodos(sm, sock) = {}
        /\ ~InStack("poll")
        /\ \A i \in 1..Len(hist) : hist[i] \notin Callbacks

\* A connected, writeable transport was removed, and a poll has returned
\* since.
C14_Witness ==
    /\ removed /\ hist = <<"no event">>
    /\ tr.connected /\ tr.writeable /\ sock = "connected"

Occ(seq, x) == Cardinality({i \in 1..Len(seq) : seq[i] = x})

\* An exception a callback of the handler raised is propagating.
Raising == exc /\ hist /= <<>> /\ hist[Len(hist)] = "raised"

C18_PeerCloseReachesHandler ==
    (stack = <<>> /\ hist /= <<>> /\ hist[1] = "peer closed" /\ used = 0) =>
        /\ InSeq(hist, "handle_close")
        /\ \A j \in 1..Len(hist) :
              hist[j] = "handle_cleanup" =>
                  \E i \in 1..(j - 1) : hist[i] = "handle_close"

----------------------------------------------------------------------------
(* asynchia.ee: inputs send their bytes to a socket-like object, collectors *)
(* read theirs from one.  An element is a record                            *)
(*   cls     its class,                                                     *)
(*   id      its identity (its onclose callback counts under it),           *)
(*   buf     StringInput.buf / StringCollector.intvalue,                    *)
(*   kids    InputQueue.inputs / CollectorQueue.collectors /                *)
(*           <<DelimitedCollector.collector>>,                              *)
(*   size    DelimitedCollector.size,                                       *)
(*   closed, inited.                                                        *)
(* A call acts on a world w = [mock, oc, val]: the MockHandler, the onclose *)
(* invocations per element and the values of the StringCollectors; it ends  *)
(* in an outcome [o, w, done, n, exc, hang]: the element and the world      *)
(* after the call, the pair (done, n) it returned, the exception it raised  *)
(* ("" if none), or hang when it never returns.                             *)

\* The bytes of one StringInput, and the size of one DelimitedCollector.
MaxLen == 2

\* The bytes of the source a collector reads from.
MaxSrc == 3

\* The calls the application makes on an element.
MaxCalls == 6

\* len bytes that name the element (or source) id they come from.
Bytes(id, len) == [j \in 1..len |-> 10 * id + j]

StringInput(id, string) ==
    [NoObj EXCEPT !.cls = "StringInput", !.id = id, !.buf = string]

InputQueue(id, inputs) ==
    [NoObj EXCEPT !.cls = "InputQueue", !.id = id, !.kids = inputs]

StringCollector(id) ==
    [NoObj EXCEPT !.cls = "StringCollector", !.id = id]

DelimitedCollector(id, collector, size) ==
    [NoObj EXCEPT !.cls = "DelimitedCollector", !.id = id,
                  !.kids = <<collector>>, !.size = size]

CollectorQueue(id, collectors) ==
    [NoObj EXCEPT !.cls = "CollectorQueue", !.id = id, !.kids = collectors]

InputClasses == {"StringInput", "InputQueue"}

CollectorClasses == {"StringCollector", "DelimitedCollector", "CollectorQueue"}

World(m, oc, val) == [mock |-> m, oc |-> oc, val |-> val]

Out(o, w, done, n) ==
    [o |-> o, w |-> w, done |-> done, n |-> n, exc |-> "", hang |-> FALSE]

\* The call raised: nothing is returned.
OutRaise(o, w, e) ==
    [o |-> o, w |-> w, done |-> FALSE, n |-> 0, exc |-> e, hang |-> FALSE]

\* The call spins in its while True loop.
OutHang(o, w) ==
    [o |-> o, w |-> w, done |-> FALSE, n |-> 0, exc |-> "", hang |-> TRUE]

\* sock.send(data) on a socket that takes at most room bytes; MockHandler.send
\* takes all of data.
sock_send(w, data, room) ==
    LET k == Min(room, Len(data)) IN
    [w |-> [w EXCEPT !.mock.outbuf = @ \o Take(data, k)], n |-> k]

\* MockHandler.recv(bufsize)
mock_recv(w, bufsize) ==
    LET i == Min(bufsize, Len(w.mock.inbuf)) IN
    [w |-> [w EXCEPT !.mock.inbuf = Drop(@, i)], data |-> Take(w.mock.inbuf, i)]

\* Input.close and Collector.close: call onclose(self), set closed.
Input_close(o, w) ==
    [o |-> [o EXCEPT !.closed = TRUE], w |-> [w EXCEPT !.oc[o.id] = @ + 1]]

RECURSIVE close_element(_, _)
RECURSIVE close_kids(_, _, _)

\* for inp in self.inputs: inp.close()
close_kids(o, w, i) ==
    IF i > Len(o.kids)
    THEN [o |-> o, w |-> w]
    ELSE LET r == close_element(o.kids[i], w) IN
         close_kids([o EXCEPT !.kids[i] = r.o], r.w, i + 1)

\* InputQueue.close, CollectorQueue.close and DelimitedCollector.close: the
\* base close, then close of every contained element.
Queue_close(o, w) ==
    LET c == Input_close(o, w) IN close_kids(c.o, c.w, 1)

\* o.close() by the class of o.
close_element(o, w) ==
    IF o.cls \in {"InputQueue", "CollectorQueue", "DelimitedCollector"}
    THEN Queue_close(o, w)
    ELSE Input_close(o, w)

\* Input.tick and Collector.add_data: the base method every override calls
\* first.  Its return value (True, 0) for a closed element is dropped by
\* the overrides; an element that is not closed is initialised.
\* DelimitedCollector.init initialises the wrapped collector as well.
Input_tick(o) ==
    IF o.closed \/ o.inited
    THEN o
    ELSE IF o.cls = "DelimitedCollector"
         THEN [o EXCEPT !.inited = TRUE, !.kids[1].inited = TRUE]
         ELSE [o EXCEPT !.inited = TRUE]

\* StringInput.tick
StringInput_tick(o, w, room) ==
    LET o1 == Input_tick(o)
        s == sock_send(w, o1.buf, room)
        o2 == [o1 EXCEPT !.buf = Drop(@, s.n)]
        c == IF o2.buf = <<>> THEN Input_close(o2, s.w) ELSE [o |-> o2, w |-> s.w]
    IN  Out(c.o, c.w, o2.buf = <<>>, s.n)

RECURSIVE tick(_, _, _)
RECURSIVE InputQueue_loop(_, _, _)

\* The while True loop of InputQueue.tick.
InputQueue_loop(o, w, room) ==
    IF o.kids = <<>>
    THEN OutRaise(o, w, "IndexError")
    ELSE LET r == tick(o.kids[1], w, room)
             kept == [o EXCEPT !.kids[1] = r.o]
             popped == [o EXCEPT !.kids = Tail(@)]
         IN  IF r.exc /= "" \/ r.hang
             THEN [r EXCEPT !.o = kept]
             ELSE IF r.done
             THEN IF popped.kids = <<>>
                  THEN LET c == Queue_close(popped, r.w) IN
                       Out(c.o, c.w, TRUE, r.n)
                  ELSE IF r.n > 0
                       THEN Out(popped, r.w, FALSE, r.n)
                       ELSE InputQueue_loop(popped, r.w, room)
             ELSE IF r.n > 0
                  THEN Out(kept, r.w, FALSE, r.n)
                  ELSE OutHang(kept, r.w)

\* InputQueue.tick taking its inputs from the other end.
InputQueue_tick_lifo(o, w, room) ==
    InputQueue_loop(
        Input_tick([o EXCEPT !.kids = [i \in 1..Len(@) |-> @[Len(@) + 1 - i]]]),
        w, room)

\* InputQueue.tick
InputQueue_tick(o, w, room) == InputQueue_loop(Input_tick(o), w, room)

\* inp.tick(sock) by the class of inp.
tick(o, w, room) ==
    IF o.cls = "InputQueue"
    THEN InputQueue_tick(o, w, room)
    ELSE StringInput_tick(o, w, room)

\* StringCollector.add_data
StringCollector_add_data(o, w, nbytes) ==
    LET o1 == Input_tick(o)
        r == mock_recv(w, nbytes)
        o2 == [o1 EXCEPT !.buf = @ \o r.data]
    IN  Out(o2, [r.w EXCEPT !.val[o.id] = o2.buf], FALSE, Len(r.data))

RECURSIVE add_data(_, _, _)
RECURSIVE CollectorQueue_loop(_, _, _)

\* DelimitedCollector.add_data asking the wrapped collector for nbytes.
DelimitedCollector_add_data_greedy(o, w, nbytes) ==
    LET o1 == Input_tick(o)
        r == add_data(o1.kids[1], w, nbytes)
        o2 == [o1 EXCEPT !.kids[1] = r.o, !.size = @ - r.n]
    IN  IF o2.size <= 0
        THEN LET c == Queue_close(o2, r.w) IN Out(c.o, c.w, TRUE, r.n)
        ELSE Out(o2, r.w, FALSE, r.n)

\* DelimitedCollector.add_data
DelimitedCollector_add_data(o, w, nbytes) ==
    LET o1 == Input_tick(o)
        r == add_data(o1.kids[1], w, Min(o1.size, nbytes))
        o2 == [o1 EXCEPT !.kids[1] = r.o, !.size = @ - r.n]
    IN  IF r.exc /= "" \/ r.hang
        THEN [r EXCEPT !.o = [o1 EXCEPT !.kids[1] = r.o]]
        ELSE IF o2.size = 0
             THEN LET c == Queue_close(o2, r.w) IN Out(c.o, c.w, TRUE, r.n)
             ELSE Out(o2, r.w, FALSE, r.n)

\* The while True loop of CollectorQueue.add_data; finish_collector does
\* nothing and full returns None.
CollectorQueue_loop(o, w, nbytes) ==
    IF o.kids = <<>>
    THEN OutRaise(o, w, "IndexError")
    ELSE LET r == add_data(o.kids[1], w, nbytes)
             kept == [o EXCEPT !.kids[1] = r.o]
             popped == [o EXCEPT !.kids = Tail(@)]
         IN  IF r.exc /= "" \/ r.hang
             THEN [r EXCEPT !.o = kept]
             ELSE IF r.done
             THEN IF popped.kids = <<>>
                  THEN LET c == IF popped.closed
                                THEN [o |-> popped, w |-> r.w]
                                ELSE Queue_close(popped, r.w)
                       IN  Out(c.o, c.w, TRUE, r.n)
                  ELSE IF r.n > 0
                       THEN Out(popped, r.w, FALSE, r.n)
                       ELSE CollectorQueue_loop(popped, r.w, nbytes)
             ELSE IF r.n > 0
                  THEN Out(kept, r.w, FALSE, r.n)
                  ELSE OutHang(kept, r.w)

\* CollectorQueue.add_data
CollectorQueue_add_data(o, w, nbytes) ==
    CollectorQueue_loop(Input_tick(o), w, nbytes)

\* coll.add_data(prot, nbytes) by the class of coll.
add_data(o, w, nbytes) ==
    IF o.cls = "CollectorQueue"
    THEN CollectorQueue_add_data(o, w, nbytes)
    ELSE IF o.cls = "DelimitedCollector"
    THEN DelimitedCollector_add_data(o, w, nbytes)
    ELSE StringCollector_add_data(o, w, nbytes)

----------------------------------------------------------------------------
(* Specification SpecEE: the application builds one input with an empty     *)
(* MockHandler, or one collector with a MockHandler that holds the source,  *)
(* and then calls tick / add_data and close on it.  For an input built     *)
(* with + it also builds a twin from the same operands, with a MockHandler  *)
(* of its own.                                                              *)

Lens == 0..MaxLen

\* The operands a, b, c.
Leaf(i, len) == StringInput(i, Bytes(i, len))

\* Input.__add__
Input_add(id, a, b) == InputQueue(id, <<a, b>>)

\* The delimited string collector with identity i around StringCollector
\* 10 + i (del_strcoll of the tests).
del_strcoll(i, size) == DelimitedCollector(i, StringCollector(10 + i), size)

ElementIds == 1..13

Build(o, m, t, srcs) ==
    [ee |-> o, mock |-> m, twin |-> t, twinmock |-> MockHandler(<<>>),
     srcs |-> srcs]

\* One StringInput, or an InputQueue of up to three.
InputBuilds ==
    {Build(Leaf(1, l), MockHandler(<<>>), NoObj, <<Bytes(1, l)>>) : l \in Lens}
    \cup {Build(InputQueue(4, <<>>), MockHandler(<<>>), NoObj, <<>>)}
    \cup {Build(InputQueue(4, <<Leaf(1, l)>>), MockHandler(<<>>), NoObj,
                <<Bytes(1, l)>>) : l \in Lens}
    \cup {Build(InputQueue(4, <<Leaf(1, l[1]), Leaf(2, l[2])>>),
                MockHandler(<<>>), NoObj,
                <<Bytes(1, l[1]), Bytes(2, l[2])>>) : l \in Lens \X Lens}
    \cup {Build(InputQueue(4, <<Leaf(1, l[1]), Leaf(2, l[2]), Leaf(3, l[3])>>),
                MockHandler(<<>>), NoObj,
                <<Bytes(1, l[1]), Bytes(2, l[2]), Bytes(3, l[3])>>) :
            l \in Lens \X Lens \X Lens}

\* (a + b) + c with the twin a + (b + c); e + a and a + e with the twin a,
\* for the empty InputQueue e.
AddBuilds ==
    {Build(Input_add(4, Input_add(5, Leaf(1, l[1]), Leaf(2, l[2])), Leaf(3, l[3])),
           MockHandler(<<>>),
           Input_add(6, Leaf(1, l[1]), Input_add(7, Leaf(2, l[2]), Leaf(3, l[3]))),
           <<Bytes(1, l[1]), Bytes(2, l[2]), Bytes(3, l[3])>>) :
        l \in Lens \X Lens \X Lens}
    \cup {Build(Input_add(4, InputQueue(5, <<>>), Leaf(1, l)), MockHandler(<<>>),
                Leaf(1, l), <<Bytes(1, l)>>) : l \in Lens}
    \cup {Build(Input_add(4, Leaf(1, l), InputQueue(5, <<>>)), MockHandler(<<>>),
                Leaf(1, l), <<Bytes(1, l)>>) : l \in Lens}

\* One StringCollector, one delimited collector, or a CollectorQueue of up
\* to two delimited collectors, and a source of up to MaxSrc bytes.
CollectorBuilds ==
    {Build(StringCollector(11), MockHandler(Bytes(9, k)), NoObj, <<>>) :
        k \in 0..MaxSrc}
    \cup {Build(del_strcoll(1, n), MockHandler(Bytes(9, k)), NoObj, <<n>>) :
            n \in Lens, k \in 0..MaxSrc}
    \cup {Build(CollectorQueue(4, <<>>), MockHandler(Bytes(9, k)), NoObj, <<>>) :
            k \in 0..MaxSrc}
    \cup {Build(CollectorQueue(4, <<del_strcoll(1, n)>>), MockHandler(Bytes(9, k)),
                NoObj, <<n>>) : n \in Lens, k \in 0..MaxSrc}
    \cup {Build(CollectorQueue(4, <<del_strcoll(1, n[1]), del_strcoll(2, n[2])>>),
                MockHandler(Bytes(9, k)), NoObj, <<n[1], n[2]>>) :
            n \in Lens \X Lens, k \in 0..MaxSrc}

InitEE ==
    /\ \E b \in InputBuilds \cup AddBuilds \cup CollectorBuilds :
         /\ ee = b.ee
         /\ mock = b.mock
         /\ twin = b.twin
         /\ twinmock = b.twinmock
         /\ hist = [srcs |-> b.srcs, inbuf |-> b.mock.inbuf]
    /\ onclosed = [i \in ElementIds |-> 0]
    /\ value = [i \in ElementIds |-> <<>>]
    /\ res = <<NoRes, NoRes>>
    /\ ncalls = 0
    /\ tr = NewTransport
    /\ sm = NewMap("select")
    /\ SendQuiet
    /\ DeferQuiet
    /\ CsQuiet
    /\ LifeQuiet
    /\ IntQuiet

\* What the application sees of a call.
Seen(op, r) ==
    [op |-> op, done |-> r.done, n |-> r.n, exc |-> r.exc, hang |-> r.hang]

\* ee.tick(mock), on a socket that takes room bytes per send.
Tick(room) ==
    /\ ee.cls \in InputClasses
    /\ ncalls < MaxCalls
    /\ ~res[1].hang
    /\ LET r == tick(ee, World(mock, onclosed, value), room) IN
       /\ ee' = r.o
       /\ mock' = r.w.mock
       /\ onclosed' = r.w.oc
       /\ value' = r.w.val
       /\ res' = [res EXCEPT ![1] = Seen("tick", r)]
    /\ ncalls' = ncalls + 1
    /\ UNCHANGED <<twin, twinmock, flagVars, csVars, intVars, lifeVars, sendVars, deferVars>>

\* twin.tick(twinmock)
TickTwin(room) ==
    /\ twin.cls \in InputClasses
    /\ ncalls < MaxCalls
    /\ ~res[2].hang
    /\ LET r == tick(twin, World(twinmock, onclosed, value), room) IN
       /\ twin' = r.o
       /\ twinmock' = r.w.mock
       /\ onclosed' = r.w.oc
       /\ value' = r.w.val
       /\ res' = [res EXCEPT ![2] = Seen("tick", r)]
    /\ ncalls' = ncalls + 1
    /\ UNCHANGED <<ee, mock, flagVars, csVars, intVars, lifeVars, sendVars, deferVars>>

\* ee.add_data(mock, nbytes)
AddData(nbytes) ==
    /\ ee.cls \in CollectorClasses
    /\ ncalls < MaxCalls
    /\ ~res[1].hang
    /\ LET r == add_data(ee, World(mock, onclosed, value), nbytes) IN
       /\ ee' = r.o
       /\ mock' = r.w.mock
       /\ onclosed' = r.w.oc
       /\ value' = r.w.val
       /\ res' = [res EXCEPT ![1] = Seen("add_data", r)]
    /\ ncalls' = ncalls + 1
    /\ UNCHANGED <<twin, twinmock, flagVars, csVars, intVars, lifeVars, sendVars, deferVars>>

\* ee.close()
CloseElement ==
    /\ ee.cls /= "None"
    /\ ncalls < MaxCalls
    /\ ~res[1].hang
    /\ LET r == close_element(ee, World(mock, onclosed, value)) IN
       /\ ee' = r.o
       /\ mock' = r.w.mock
       /\ onclosed' = r.w.oc
       /\ value' = r.w.val
    /\ res' = [res EXCEPT ![1] = [NoRes EXCEPT !.op = "close"]]
    /\ ncalls' = ncalls + 1
    /\ UNCHANGED <<twin, twinmock, flagVars, csVars, intVars, lifeVars, sendVars, deferVars>>

NextEE ==
    \/ \E room \in 0..(MaxLen + 1) : Tick(room)
    \/ \E room \in 0..(MaxLen + 1) : TickTwin(room)
    \/ \E nbytes \in 1..(MaxLen + 1) : AddData(nbytes)
    \/ CloseElement

SpecEE == InitEE /\ [][NextEE]_vars

\* C22: whatever calls the application makes (tick or add_data also after
\* the element reported done, close also after the element closed itself),
\* no element's onclose callback is invoked more than once.
C22_OncloseOnce ==
    \A i \in ElementIds : onclosed[i] <= 1

\* C38: every tick and add_data call returns (or raises) after a bounded
\* number of calls to the sink or source: none spins in its loop, also when
\* send accepts no byte or recv returns none.
C38_CallsReturn ==
    \A i \in {1, 2} : ~res[i].hang

\* C39: a tick or add_data call on an element that is closed returns
\* (True, 0), sends nothing to the sink, takes nothing from the source and
\* leaves the element's buffer and the collectors' values as they were.
C39_ClosedIsInert ==
    [][(/\ ee.closed
        /\ twin.cls = "None"
        /\ ncalls' = ncalls + 1
        /\ res'[1].op \in {"tick", "add_data"})
       => (/\ res'[1].done /\ res'[1].n = 0
           /\ res'[1].exc = "" /\ ~res'[1].hang
           /\ mock' = mock
           /\ value' = value
           /\ ee'.buf = ee.buf)]_vars

\* The strings of a sequence of strings, joined.
RECURSIVE Joined(_)
Joined(strings) ==
    IF strings = <<>> THEN <<>> ELSE Head(strings) \o Joined(Tail(strings))

\* C23: what an input (a StringInput, an InputQueue, a queue of queues) has
\* sent is at every moment a prefix of the bytes of its StringInputs joined
\* in queue order, and all of them once tick has reported done; the values
\* of the StringCollectors inside a collector, joined in queue order and
\* followed by what is left in the source, are the source's content, no
\* collector holds more than its size, and a later collector holds bytes
\* only when the one before it is full.
C23_QueueOrder ==
    /\ ee.cls \in InputClasses =>
          /\ IsPrefix(mock.outbuf, Joined(hist.srcs))
          /\ res[1].done => mock.outbuf = Joined(hist.srcs)
    /\ ee.cls \in CollectorClasses =>
          /\ value[11] \o value[12] \o mock.inbuf = hist.inbuf
          /\ \A i \in 1..Len(hist.srcs) : Len(value[10 + i]) <= hist.srcs[i]
          /\ value[12] /= <<>> => Len(value[11]) = hist.srcs[1]

\* An InputQueue of three StringInputs of two bytes each has reported done
\* after more than three ticks, without a close() by the application: some
\* send took less than it was offered.
C23_Witness ==
    /\ ee.cls = "InputQueue" /\ ee.id = 4 /\ twin = NoObj
    /\ res[1].done
    /\ Len(mock.outbuf) = 6
    /\ ncalls >= 4
    /\ onclosed[4] = 1

\* C24: for an input built with + and its twin built from the same operands
\* ((a + b) + c and a + (b + c); e + a or a + e and a, for the empty
\* InputQueue e), no tick raises before the input has reported done (or
\* was closed by the application), and when both have reported done they
\* have written the same bytes.
C24_AddAssociative ==
    twin.cls /= "None" =>
        /\ res[1].exc = "" \/ ee.closed
        /\ res[2].exc = "" \/ twin.closed
        /\ (res[1].done /\ res[2].done) => mock.outbuf = twinmock.outbuf

\* C25: for a DelimitedCollector around a StringCollector, of size n, after
\* every add_data call: the call reported done exactly if the inner collector
\* has received n bytes in all; what the inner collector holds is the
\* beginning of the source, never more than n bytes, and the rest of the
\* source is still in the MockHandler.
C25_DelimitedExact ==
    (ee.cls = "DelimitedCollector" /\ res[1].op = "add_data") =>
        /\ res[1].done <=> Len(value[11]) = hist.srcs[1]
        /\ Len(value[11]) <= hist.srcs[1]
        /\ value[11] \o mock.inbuf = hist.inbuf
        /\ res[1].exc = "" /\ ~res[1].hang

\* A collector of size 2 has reported done on its second add_data call, one
\* byte at a time, and a byte is left in the source.
C25_Witness ==
    /\ ee.cls = "DelimitedCollector" /\ res[1].op = "add_data"
    /\ res[1].done
    /\ ncalls = 2
    /\ hist.srcs = <<2>>
    /\ Len(value[11]) = 2
    /\ Len(mock.inbuf) = 1

----------------------------------------------------------------------------
(* asynchia.ee.Handler: ee is the handler's queue (an InputQueue of         *)
(* StringInputs), mock the socket behind the transport, tr and sm the       *)
(* transport and its socket-map.  hist is [hooks, given, nin]: the ids of   *)
(* the inputs whose onclose callback calls send_input, the bytes of all the *)
(* inputs passed to send_input so far, in order, and their number.          *)

\* The send_input calls of the application.
MaxInputs == 3

\* The id of the StringInput an onclose callback of input id passes to
\* send_input.
Follower(id) == id + 4

\* InputQueue.add
InputQueue_add(q, inp) == [q EXCEPT !.kids = Append(@, inp)]

\* send_input leaving the writeable flag alone.
Handler_send_input_quiet(q, m, inp) == [q |-> InputQueue_add(q, inp), m |-> m]

\* ee.Handler.send_input(inp) on the machine m of the transport: the queue
\* and the machine after the call.
Handler_send_input(q, m, inp) ==
    [q |-> InputQueue_add(q, inp),
     m |-> IF ~m.tr.writeable THEN set_writeable(m, TRUE) ELSE m]

RECURSIVE Handler_queue_loop(_, _, _, _)
RECURSIVE Handler_queue_round(_, _, _, _)

\* One round of the while True loop of InputQueue.tick on the handler's
\* queue, after the head input's tick has returned r.  That tick closes the
\* head when its buffer is empty, and the onclose callback of an input in
\* hooks then calls send_input with a one-byte StringInput: the transport is
\* writeable during handle_write, so send_input only adds to the queue,
\* before the head is popped.
Handler_queue_round(q, r, hooks, room) ==
    LET head == q.kids[1]
        hooked == IF r.o.closed /\ head.id \in hooks
                  THEN InputQueue_add(q, Leaf(Follower(head.id), 1))
                  ELSE q
        kept == [hooked EXCEPT !.kids[1] = r.o]
        popped == [hooked EXCEPT !.kids = Tail(@)]
    IN  IF r.done
        THEN IF popped.kids = <<>>
             THEN LET c == Queue_close(popped, r.w) IN
                  Out(c.o, c.w, TRUE, r.n)
             ELSE IF r.n > 0
                  THEN Out(popped, r.w, FALSE, r.n)
                  ELSE Handler_queue_loop(popped, r.w, hooks, room)
        ELSE IF r.n > 0
             THEN Out(kept, r.w, FALSE, r.n)
             ELSE OutHang(kept, r.w)

\* The while True loop of InputQueue.tick on the handler's queue: inp =
\* self.inputs[0] raises IndexError on an empty queue, else inp.tick(sock)
\* is called, once per round.
Handler_queue_loop(q, w, hooks, room) ==
    IF q.kids = <<>>
    THEN OutRaise(q, w, "IndexError")
    ELSE CHOOSE out \in {Handler_queue_round(q, r, hooks, room) :
                           r \in {StringInput_tick(q.kids[1], w, room)}} : TRUE

\* The bytes the onclose callbacks of the inputs closed by a handle_write
\* passed to send_input: before and after are the onclose counts.
RECURSIVE Followed(_, _, _, _)
Followed(before, after, hooks, i) ==
    IF i > MaxInputs
    THEN <<>>
    ELSE (IF i \in hooks /\ after[i] > before[i]
          THEN Bytes(Follower(i), 1) ELSE <<>>)
         \o Followed(before, after, hooks, i + 1)

\* ee.Handler.__init__ on a connected transport, with no collector.
InitHandler ==
    /\ \E k \in Kinds :
         LET m == set_socket(Machine(NewTransport, NewMap(k)), FALSE) IN
         /\ tr = bind_handler(m.tr)
         /\ sm = m.sm
    /\ ee = InputQueue(13, <<>>)
    /\ mock = MockHandler(<<>>)
    /\ twin = NoObj
    /\ twinmock = MockHandler(<<>>)
    /\ onclosed = [i \in ElementIds |-> 0]
    /\ value = <<>>
    /\ res = <<NoRes, NoRes>>
    /\ ncalls = 0
    /\ hist = [hooks |-> {}, given |-> <<>>, nin |-> 0]
    /\ SendQuiet
    /\ DeferQuiet
    /\ CsQuiet
    /\ LifeQuiet
    /\ IntQuiet

\* handler.send_input(StringInput(string, onclose)) by the application,
\* with a string of len bytes; hook: onclose calls send_input.
SendInput(len, hook) ==
    /\ hist.nin < MaxInputs
    /\ LET id == hist.nin + 1
           r == Handler_send_input(ee, Machine(tr, sm), Leaf(id, len))
       IN  /\ ee' = r.q
           /\ tr' = r.m.tr
           /\ sm' = r.m.sm
           /\ hist' = [hooks |-> IF hook THEN hist.hooks \cup {id} ELSE hist.hooks,
                       given |-> hist.given \o Bytes(id, len),
                       nin |-> id]
    /\ res' = [res EXCEPT ![1] = [NoRes EXCEPT !.op = "send_input"]]
    /\ UNCHANGED <<mock, twin, twinmock, onclosed, value, ncalls, csVars, intVars,
                   lifeVars, sendVars, deferVars>>

\* A write-readiness event of the transport, dispatched to
\* ee.Handler.handle_write; every send of the event takes up to room bytes.
HandleWrite(room) ==
    /\ WriteInterest(sm) /\ tr.writeable
    /\ ~res[1].hang /\ res[1].exc = ""
    /\ \E r \in {Handler_queue_loop(Input_tick(ee), World(mock, onclosed, value),
                                   hist.hooks, room)} :
       LET m == IF r.exc = "" /\ ~r.hang /\ r.done
                THEN set_writeable(Machine(tr, sm), FALSE)
                ELSE Machine(tr, sm)
       IN  /\ ee' = r.o
           /\ mock' = r.w.mock
           /\ onclosed' = r.w.oc
           /\ value' = r.w.val
           /\ res' = [res EXCEPT ![1] = Seen("handle_write", r)]
           /\ tr' = m.tr
           /\ sm' = m.sm
           /\ hist' = [hist EXCEPT !.given =
                          @ \o Followed(onclosed, r.w.oc, hist.hooks, 1)]
    /\ ncalls' = ncalls + 1
    /\ UNCHANGED <<twin, twinmock, csVars, intVars, lifeVars, sendVars, deferVars>>

NextHandler ==
    \/ \E len \in Lens, hook \in BOOLEAN : SendInput(len, hook)
    \/ \E room \in 1..(MaxLen + 1) : HandleWrite(room)

\* Write-readiness events keep occurring while the transport is watched for
\* writing.
SpecHandler ==
    /\ InitHandler
    /\ [][NextHandler]_vars
    /\ WF_vars(\E room \in 1..(MaxLen + 1) : HandleWrite(room))

\* C36: whenever the handler's queue holds an input the transport is
\* writeable and watched for writing; handle_write never finds the queue
\* empty, never spins and at most reports done with the queue empty and the
\* writeable flag false afterwards; the socket has received a prefix of the
\* bytes passed to send_input, in order; and every input passed to
\* send_input is eventually sent completely.
C36_HandlerSendsAll ==
    /\ [](/\ ee.kids /= <<>> => (tr.writeable /\ WriteInterest(sm))
          /\ res[1].exc = "" /\ ~res[1].hang
          /\ (res[1].op = "handle_write" /\ res[1].done) =>
                (~tr.writeable /\ ~WriteInterest(sm) /\ ee.kids = <<>>)
          /\ IsPrefix(mock.outbuf, hist.given))
    /\ []<>(mock.outbuf = hist.given /\ ee.kids = <<>>)

\* The queue drained and closed itself, then a second input whose onclose
\* callback calls send_input was passed to send_input, and both that input
\* and the one its callback added have been sent.
C36_Witness ==
    /\ hist.nin = 2 /\ hist.hooks = {2}
    /\ onclosed[13] = 2
    /\ onclosed[Follower(2)] = 1
    /\ res[1].op = "handle_write" /\ res[1].done
    /\ mock.outbuf = hist.given
    /\ Len(hist.given) = 4

----------------------------------------------------------------------------
(* asynchia.defer.  The heap h holds the Node objects by identity:          *)
(*   h.node[i]   the attributes of node i (children, cachedsuccess,         *)
(*               cachederror, its callback and errback), with two logs:     *)
(*               got, the calls of its success / err method, and            *)
(*               outcomes, the calls of its success_callback /              *)
(*               error_callback, each as <<kind, data>>;                    *)
(*   h.n         the nodes created so far;                                  *)
(*   h.over      a node was needed beyond MaxNodes;                         *)
(*   h.gen       the generators the Coroutines drive: h.gen[1] is that of   *)
(*               the coroutine the application starts, h.gen[2] that of the *)
(*               coroutine the first one starts with Coroutine.call_itr.    *)
(* A Deferred is its root node (Deferred.callbacks).  A callable is a       *)
(* record [k, to]: what it does when called, and the node it refers to.     *)
(* Methods are operators from the heap to the heap after the call.          *)

\* The Node objects.
MaxNodes == 5

\* The submit_success / submit_error calls of the application.
MaxResolve == 2

NodeIds == 1..MaxNodes

\* _NULL = object()
NULL == "_NULL"

Fun(k, to) == [k |-> k, to |-> to]

\* Blueprint.default_callback: return value
default_callback == Fun("default_callback", 0)

\* Blueprint.default_errback: raise err
default_errback == Fun("default_errback", 0)

\* No generator.  yields: what the generator yields, one item after the
\* other: the Deferred with that root node, or 0 for the Deferred that
\* Coroutine.call_itr gives for the second generator.  sent: the
\* <<status, data>> the Coroutine has sent or thrown into it.  last: the
\* generator's local: the value the last yield gave it.
NoGen ==
    [yields |-> <<>>, ending |-> "none", catches |-> FALSE, pc |-> 0,
     started |-> FALSE, finished |-> FALSE, backing |-> 0, last |-> "None",
     sent |-> <<>>]

\* A node not created yet.
NoNode ==
    [used |-> FALSE, cb |-> default_callback, eb |-> default_errback,
     up |-> 0, children |-> <<>>, cachedsuccess |-> NULL, cachederror |-> NULL,
     event |-> FALSE, got |-> <<>>, outcomes |-> <<>>]

\* Blueprint.__init__
NewNode(callback, errback, up) ==
    [NoNode EXCEPT !.used = TRUE, !.cb = callback, !.eb = errback, !.up = up]

RECURSIVE success_callback(_, _, _)
RECURSIVE error_callback(_, _, _)
RECURSIVE visit(_, _, _, _)
RECURSIVE add_node(_, _, _, _)
RECURSIVE fire_children(_, _, _, _, _)
RECURSIVE Coroutine_send(_, _, _, _)
RECURSIVE call_itr(_, _)

\* Coroutine.success_databack(data): self.send((SUCCESS, data))
success_databack(h, k, data) == Coroutine_send(h, k, "SUCCESS", data)

\* error_databack sending the error into the generator as a value.
error_databack_as_value(h, k, data) == Coroutine_send(h, k, "SUCCESS", data)

\* Coroutine.error_databack(data): self.send((ERROR, data))
error_databack(h, k, data) == Coroutine_send(h, k, "ERROR", data)

\* Node.success(data): self.visit(self._callback, data)
success(h, c, data) ==
    visit([h EXCEPT !.node[c].got = Append(@, <<"success", data>>)],
          c, h.node[c].cb, data)

\* Node.err(data): self.visit(self._errback, data)
err(h, c, data) ==
    visit([h EXCEPT !.node[c].got = Append(@, <<"error", data>>)],
          c, h.node[c].eb, data)

\* add_node that appends the new node also when an outcome is cached.
add_node_late(h, n, callback, errback) ==
    IF h.n >= MaxNodes
    THEN [h EXCEPT !.over = TRUE]
    ELSE [h EXCEPT !.n = h.n + 1,
                   !.node[h.n + 1] = NewNode(callback, errback, n),
                   !.node[n].children = Append(@, h.n + 1)]

\* Blueprint.add(callback, errback) and add_node on node n: the new node is
\* fired at once with the cached outcome of n, or appended to its children.
add_node(h, n, callback, errback) ==
    IF h.n >= MaxNodes
    THEN [h EXCEPT !.over = TRUE]
    ELSE LET c == h.n + 1
             h1 == [h EXCEPT !.n = c, !.node[c] = NewNode(callback, errback, n)]
         IN  IF h.node[n].cachedsuccess /= NULL
             THEN success(h1, c, h.node[n].cachedsuccess)
             ELSE IF h.node[n].cachederror /= NULL
             THEN err(h1, c, h.node[n].cachederror)
             ELSE [h1 EXCEPT !.node[n].children = Append(@, c)]

\* for child in self.children: child.success(data) / child.err(data).  The
\* list is read anew at every step: a child appended meanwhile is reached.
fire_children(h, n, i, how, data) ==
    IF i > Len(h.node[n].children)
    THEN h
    ELSE LET c == h.node[n].children[i] IN
         fire_children(IF how = "success" THEN success(h, c, data)
                                          ELSE err(h, c, data),
                       n, i + 1, how, data)

\* Node.success_callback
success_callback(h, n, data) ==
    LET h1 == fire_children(h, n, 1, "success", data) IN
    [h1 EXCEPT !.node[n].cachedsuccess = data,
               !.node[n].event = TRUE,
               !.node[n].outcomes = Append(@, <<"success", data>>)]

\* error_callback treating the error as a result.
error_callback_as_success(h, n, data) == success_callback(h, n, data)

\* Node.error_callback
error_callback(h, n, data) ==
    LET h1 == fire_children(h, n, 1, "error", data) IN
    [h1 EXCEPT !.node[n].cachederror = data,
               !.node[n].event = TRUE,
               !.node[n].outcomes = Append(@, <<"error", data>>)]

\* visit caching the Deferred its callback returned, as it does any value.
chain_cached(h, c, d) == success_callback(h, c, "Deferred")

\* value.callbacks.add(self.success_callback, self.error_callback): node c
\* chains onto the Deferred with root node d.
chain(h, c, d) ==
    add_node(h, d, Fun("success_callback", c), Fun("error_callback", c))

\* Node.visit(callback, data) for the callables of the model:
\*   default_callback   returns its argument
\*   default_errback    raises its argument
\*   raise              raises the exception E2
\*   value              returns the value r
\*   return_deferred    returns the Deferred whose root node is fun.to
\*   return_escape      returns Escape(d) for that Deferred d
\*   add_to             calls add() on node fun.to and returns its argument
\*   success_callback, error_callback
\*                      the bound methods of node fun.to, as visit adds them
\*                      to a returned Deferred; they return None
\*   success_databack, error_databack
\*                      the bound methods of the Coroutine; they return None
visit(h, c, fun, data) ==
    CASE fun.k = "default_callback" -> success_callback(h, c, data)
      [] fun.k = "default_errback" -> error_callback(h, c, data)
      [] fun.k = "raise" -> error_callback(h, c, "E2")
      [] fun.k = "value" -> success_callback(h, c, "r")
      [] fun.k = "return_deferred" -> chain(h, c, fun.to)
      [] fun.k = "return_escape" -> success_callback(h, c, "Deferred")
      [] fun.k = "add_to" ->
            success_callback(
                add_node(h, fun.to, default_callback, default_errback), c, data)
      [] fun.k = "success_callback" ->
            success_callback(success_callback(h, fun.to, data), c, "None")
      [] fun.k = "error_callback" ->
            success_callback(error_callback(h, fun.to, data), c, "None")
      [] fun.k = "success_databack" ->
            success_callback(success_databack(h, fun.to, data), c, "None")
      [] fun.k = "error_databack" ->
            success_callback(error_databack(h, fun.to, data), c, "None")

\* What the generator g ends with once it has no more to yield:
\*   StopIteration     it returns
\*   CoroutineReturn   Coroutine.return_("v")
\*   ReturnLast        Coroutine.return_(blub), blub the result of its yield
\*   ReturnYay         Coroutine.return_("yay %s" % blub)
\*   Exception         it raises E3
EndOutcome(g) ==
    CASE g.ending = "StopIteration" -> <<"success", "None">>
      [] g.ending = "CoroutineReturn" -> <<"success", "v">>
      [] g.ending = "ReturnLast" -> <<"success", g.last>>
      [] g.ending = "ReturnYay" -> <<"success", "yay " \o g.last>>
      [] OTHER -> <<"error", "E3">>

\* Coroutine.send((status, data)) of coroutine k.  The generator yields the
\* items h.gen[k].yields one after the other and then ends as
\* h.gen[k].ending says.  An exception thrown into it comes back out, unless
\* the generator catches it (except HTTP404: blub = 404) and goes on.  send
\* on a finished generator raises StopIteration, throw raises what is thrown.
Coroutine_send(h, k, status, data) ==
    LET g == h.gen[k]
        h0 == [h EXCEPT !.gen[k].sent = Append(@, <<status, data>>)]
        over == [h0 EXCEPT !.gen[k].finished = TRUE]
        blub == IF status = "ERROR" THEN "404" ELSE data
        h1 == [h0 EXCEPT !.gen[k].last = blub]
    IN  IF g.finished
        THEN IF status = "ERROR"
             THEN error_callback(h0, g.backing, data)
             ELSE success_callback(h0, g.backing, "None")
        ELSE IF status = "ERROR" /\ ~g.catches
        THEN error_callback(over, g.backing, data)
        ELSE IF g.pc < Len(g.yields)
        THEN LET h2 == [h1 EXCEPT !.gen[k].pc = g.pc + 1]
                 item == g.yields[g.pc + 1]
             IN  IF item /= 0
                 THEN add_node(h2, item, Fun("success_databack", k),
                               Fun("error_databack", k))
                 ELSE add_node(call_itr(h2, 2), h2.n + 1,
                               Fun("success_databack", k),
                               Fun("error_databack", k))
        ELSE LET end == EndOutcome(h1.gen[k])
                 fin == [h1 EXCEPT !.gen[k].finished = TRUE]
             IN  IF end[1] = "success"
                 THEN success_callback(fin, g.backing, end[2])
                 ELSE error_callback(fin, g.backing, end[2])

\* Coroutine.call_itr(itr, None) for the generator h.gen[k]: the Coroutine
\* gets a Deferred of its own (a new root node) and is started.
call_itr(h, k) ==
    IF h.n >= MaxNodes
    THEN [h EXCEPT !.over = TRUE]
    ELSE Coroutine_send(
             [h EXCEPT !.n = h.n + 1,
                       !.node[h.n + 1] = NewNode(default_callback, default_errback, 0),
                       !.gen[k].backing = h.n + 1,
                       !.gen[k].started = TRUE],
             k, "SUCCESS", "None")

\* Node.synchronize, once the event is set: what it raises or returns.
synchronize(h, n) ==
    IF h.node[n].cachederror /= NULL
    THEN [raises |-> TRUE, value |-> h.node[n].cachederror]
    ELSE [raises |-> FALSE,
          value |-> IF h.node[n].cachedsuccess /= NULL
                    THEN h.node[n].cachedsuccess ELSE "None"]

\* Deferred.__init__ for the first k Deferreds: each has a Node() of its own.
NewHeap(k) ==
    [node |-> [i \in NodeIds |->
                 IF i <= k THEN NewNode(default_callback, default_errback, 0)
                           ELSE NoNode],
     n |-> k, over |-> FALSE, gen |-> <<NoGen, NoGen>>]

----------------------------------------------------------------------------
(* Specification SpecDefer: the application holds two Deferreds, r (node 1) *)
(* and d (node 2), adds nodes with callbacks to any node, and submits       *)
(* results and errors.  Callbacks that return a Deferred return d.          *)

Values == {"None", "a"}

Errors == {"E1"}

\* The <<callback, errback>> pairs the application passes to add on node n:
\* a callback with the default errback, or an errback that returns a value
\* with the default callback.
AppCallbacks(n) ==
    {<<default_callback, default_errback>>,
     <<Fun("raise", 0), default_errback>>,
     <<Fun("return_deferred", 2), default_errback>>,
     <<Fun("return_escape", 2), default_errback>>,
     <<Fun("add_to", n), default_errback>>,
     <<default_callback, Fun("value", 0)>>}

InitDefer ==
    /\ heap = NewHeap(2)
    /\ nres = 0
    /\ thr = <<>>
    /\ tr = NewTransport
    /\ sm = NewMap("select")
    /\ hist = <<>>
    /\ SendQuiet
    /\ EeQuiet
    /\ CsQuiet
    /\ LifeQuiet
    /\ IntQuiet

\* Deferred.submit_success(data)
SubmitSuccess(d, data) ==
    /\ nres < MaxResolve
    /\ LET h == success_callback(heap, d, data) IN
       /\ ~h.over
       /\ heap' = h
    /\ nres' = nres + 1
    /\ UNCHANGED <<thr, flagVars, csVars, intVars, lifeVars, sendVars, eeVars>>

\* Deferred.submit_error(data)
SubmitError(d, data) ==
    /\ nres < MaxResolve
    /\ LET h == error_callback(heap, d, data) IN
       /\ ~h.over
       /\ heap' = h
    /\ nres' = nres + 1
    /\ UNCHANGED <<thr, flagVars, csVars, intVars, lifeVars, sendVars, eeVars>>

\* node.add(callback, errback), called by the application.
AddNode(n, callback, errback) ==
    /\ heap.node[n].used
    /\ LET h == add_node(heap, n, callback, errback) IN
       /\ ~h.over
       /\ heap' = h
    /\ UNCHANGED <<nres, thr, flagVars, csVars, intVars, lifeVars, sendVars, eeVars>>

NextDefer ==
    \/ \E d \in {1, 2}, data \in Values : SubmitSuccess(d, data)
    \/ \E d \in {1, 2}, data \in Errors : SubmitError(d, data)
    \/ \E n \in NodeIds : \E f \in AppCallbacks(n) : AddNode(n, f[1], f[2])

SpecDefer == InitDefer /\ [][NextDefer]_vars

\* C37: of every Node at most one of cachedsuccess and cachederror differs
\* from _NULL, and its event is set only if one of them does.
C37_OneOutcomeCached ==
    \A n \in NodeIds :
        heap.node[n].used =>
            /\ ~(heap.node[n].cachedsuccess /= NULL /\ heap.node[n].cachederror /= NULL)
            /\ heap.node[n].event =>
                  (heap.node[n].cachedsuccess /= NULL \/ heap.node[n].cachederror /= NULL)

\* The outcome <<kind, data>> is what synchronize on node n gives.
Cached(h, n, outcome) ==
    /\ synchronize(h, n).raises = (outcome[1] = "error")
    /\ synchronize(h, n).value = outcome[2]

\* The nodes added to node n.
ChildrenOf(h, n) == {c \in NodeIds : h.node[c].used /\ h.node[c].up = n}

\* C26: once the application has submitted to a Deferred, the outcome its
\* root node has cached is that of the first submit, whatever is submitted
\* later, and no node added to the root has been fired more than once.
C26_ResolvesOnce ==
    \A d \in {1, 2} :
        heap.node[d].outcomes /= <<>> =>
            /\ Cached(heap, d, heap.node[d].outcomes[1])
            /\ \A c \in ChildrenOf(heap, d) : Len(heap.node[c].got) <= 1

\* C27: a node that has resolved once has fired every node added to it
\* exactly once, with the outcome it resolved with (also the value None),
\* whether the node was added before the resolution, by a callback during
\* it, or afterwards; a node that has not resolved has fired none.
C27_ChildFiredOnce ==
    \A n \in NodeIds : \A c \in ChildrenOf(heap, n) :
        /\ Len(heap.node[n].outcomes) = 1 =>
              heap.node[c].got = <<heap.node[n].outcomes[1]>>
        /\ heap.node[n].outcomes = <<>> => heap.node[c].got = <<>>

\* The Deferred r has resolved once with None.  Node 3 was added before
\* (it is in the children list) and its callback added node 4 while r was
\* firing; node 5 was added afterwards (it is not in the list).  Each was
\* fired once with None.
C27_Witness ==
    /\ heap.node[1].outcomes = <<<<"success", "None">>>>
    /\ heap.node[1].children = <<3, 4>>
    /\ heap.node[3].cb = Fun("add_to", 1)
    /\ heap.node[5].used /\ heap.node[5].up = 1
    /\ \A c \in {3, 4, 5} : heap.node[c].got = <<<<"success", "None">>>>

\* C28: a node whose callback has run once and returned the Deferred d has
\* no outcome, nothing cached and no child fired while d is unresolved; once
\* d has resolved (once), the node has d's outcome, value or error, and has
\* fired its children with it.  A node whose callback has run once and
\* returned Escape(d) has the Deferred itself as its success value and has
\* fired its children with it.
C28_ReturnedDeferredChains ==
    \A c \in NodeIds :
        (heap.node[c].used /\ Len(heap.node[c].got) = 1
                           /\ heap.node[c].got[1][1] = "success") =>
            /\ (heap.node[c].cb = Fun("return_deferred", 2)
                    /\ heap.node[2].outcomes = <<>>) =>
                  /\ heap.node[c].outcomes = <<>>
                  /\ heap.node[c].cachedsuccess = NULL
                  /\ heap.node[c].cachederror = NULL
                  /\ \A k \in ChildrenOf(heap, c) : heap.node[k].got = <<>>
            /\ (heap.node[c].cb = Fun("return_deferred", 2)
                    /\ Len(heap.node[2].outcomes) = 1) =>
                  /\ heap.node[c].outcomes = heap.node[2].outcomes
                  /\ Cached(heap, c, heap.node[2].outcomes[1])
                  /\ \A k \in ChildrenOf(heap, c) :
                        heap.node[k].got = heap.node[2].outcomes
            /\ heap.node[c].cb = Fun("return_escape", 2) =>
                  /\ heap.node[c].outcomes = <<<<"success", "Deferred">>>>
                  /\ Cached(heap, c, <<"success", "Deferred">>)
                  /\ \A k \in ChildrenOf(heap, c) :
                        heap.node[k].got = <<<<"success", "Deferred">>>>

\* Node 3, added to r, returned d while d was unresolved (node 5, which
\* visit added to d, is in d's children list); d has since resolved with
\* the error E1, and node 3 and its child 4 have received E1.
C28_Witness ==
    /\ heap.node[3].cb = Fun("return_deferred", 2)
    /\ heap.node[3].got = <<<<"success", "a">>>>
    /\ heap.node[2].children = <<5>>
    /\ heap.node[5].cb = Fun("success_callback", 3)
    /\ heap.node[2].outcomes = <<<<"error", "E1">>>>
    /\ heap.node[3].cachederror = "E1"
    /\ heap.node[4].up = 3
    /\ heap.node[4].got = <<<<"error", "E1">>>>

\* C29: a node with the default errback that was fired once, with the error
\* e, has cached e as its error, synchronize on it raises e, and it has
\* fired its children with e; so has, with E2, a node whose callback raised
\* E2.  A node fired with an error whose errback returns the value r has
\* resolved with success r and fired its children with r.
C29_ErrorPropagates ==
    \A c \in NodeIds :
        (heap.node[c].used /\ Len(heap.node[c].got) = 1) =>
            LET g == heap.node[c].got[1]
                raised == IF g[1] = "error" THEN g ELSE <<"error", "E2">>
            IN  /\ (\/ g[1] = "error" /\ heap.node[c].eb = default_errback
                    \/ g[1] = "success" /\ heap.node[c].cb = Fun("raise", 0)) =>
                      /\ heap.node[c].outcomes = <<raised>>
                      /\ heap.node[c].cachederror = raised[2]
                      /\ synchronize(heap, c) = [raises |-> TRUE, value |-> raised[2]]
                      /\ \A k \in ChildrenOf(heap, c) : heap.node[k].got = <<raised>>
                /\ (g[1] = "error" /\ heap.node[c].eb = Fun("value", 0)) =>
                      /\ heap.node[c].outcomes = <<<<"success", "r">>>>
                      /\ synchronize(heap, c) = [raises |-> FALSE, value |-> "r"]
                      /\ \A k \in ChildrenOf(heap, c) :
                            heap.node[k].got = <<<<"success", "r">>>>

\* Node 3 was added to r, node 4 to node 3 and node 5 to node 4 before r
\* resolved with the error E1; nodes 3 and 4 have the default errback and
\* have cached E1; node 5 has an errback that returns r and has resolved
\* with success r.
C29_Witness ==
    /\ heap.node[1].outcomes = <<<<"error", "E1">>>>
    /\ heap.node[1].children = <<3>>
    /\ heap.node[3].children = <<4>>
    /\ heap.node[4].children = <<5>>
    /\ heap.node[3].eb = default_errback /\ heap.node[4].eb = default_errback
    /\ heap.node[3].cachederror = "E1" /\ heap.node[4].cachederror = "E1"
    /\ heap.node[5].eb = Fun("value", 0)
    /\ heap.node[5].cachedsuccess = "r"
    /\ heap.node[5].cachederror = NULL

---------------------------------------------------------------------------------------------------------------------------------------------------
(* Specification SpecCoroutine: a Coroutine drives a generator and the      *)
(* application starts it and submits to the Deferreds it waits for.         *)
(* Either the generator yields up to MaxYields times one of the Deferreds   *)
(* d1 (node 1) and d2 (node 2) and then ends, node 3 being the root of the  *)
(* coroutine's own Deferred; or, as in mkcoroutine of test_defer.py, the    *)
(* generator foo yields Coroutine.call_itr(bar) and returns "yay %s" of     *)
(* the result, where bar yields a (node 1) or nothing and returns what it   *)
(* got or raises, node 2 being the root of foo's Deferred.                  *)

MaxYields == 2

Endings == {"StopIteration", "CoroutineReturn", "Exception"}

\* The sequences of length k over the Deferreds d1, d2.
YieldSeqs(k) == [1..k -> {1, 2}]

\* The heaps after Coroutine.__init__(itr) for the generators of the model.
Coroutines ==
    {[NewHeap(3) EXCEPT !.gen[1] = [NoGen EXCEPT !.yields = ys, !.ending = e,
                                                 !.catches = c, !.backing = 3]] :
        ys \in UNION {YieldSeqs(k) : k \in 0..MaxYields},
        e \in Endings, c \in BOOLEAN}
    \cup
    {[NewHeap(2) EXCEPT !.gen[1] = [NoGen EXCEPT !.yields = <<0>>,
                                                 !.ending = "ReturnYay",
                                                 !.catches = c, !.backing = 2],
                        !.gen[2] = [NoGen EXCEPT !.yields = ys, !.ending = e]] :
        ys \in {<<>>, <<1>>}, e \in {"ReturnLast", "Exception"}, c \in BOOLEAN}

\* The Deferreds the application holds: those before the coroutine's own.
AppDeferreds == 1..(heap.gen[1].backing - 1)

\* Coroutine.__init__(itr)
InitCoroutine ==
    /\ heap \in Coroutines
    /\ nres = 0
    /\ thr = <<>>
    /\ tr = NewTransport
    /\ sm = NewMap("select")
    /\ hist = <<>>
    /\ SendQuiet
    /\ EeQuiet
    /\ CsQuiet
    /\ LifeQuiet
    /\ IntQuiet

\* c.send(): the application starts the coroutine.
CoroutineStart ==
    /\ ~heap.gen[1].started
    /\ LET h == Coroutine_send([heap EXCEPT !.gen[1].started = TRUE],
                               1, "SUCCESS", "None") IN
       /\ ~h.over
       /\ heap' = h
    /\ UNCHANGED <<nres, thr, flagVars, csVars, intVars, lifeVars, sendVars, eeVars>>

NextCoroutine ==
    \/ CoroutineStart
    \/ \E d \in AppDeferreds, data \in Values : SubmitSuccess(d, data)
    \/ \E d \in AppDeferreds, data \in Errors : SubmitError(d, data)

SpecCoroutine == InitCoroutine /\ [][NextCoroutine]_vars

\* C30: the coroutine's Deferred has no outcome while the generator has not
\* ended; once it has ended the Deferred has resolved exactly once, with
\* success None after StopIteration, success v after CoroutineReturn(v) and
\* with the error the generator raised otherwise, and that is the outcome
\* cached, however often the yielded Deferreds are submitted to afterwards.
C30_CoroutineResolvesOnce ==
    LET g == heap.gen[1]
        b == heap.node[g.backing]
    IN  /\ ~g.finished => b.outcomes = <<>>
        /\ g.finished =>
              /\ Len(b.outcomes) = 1
              /\ b.outcomes[1] \in {EndOutcome(g)}
                                     \cup {<<"error", e>> : e \in Errors}
                                     \cup {<<"error", "E3">>}
              /\ Cached(heap, g.backing, b.outcomes[1])

\* The nodes a yield of coroutine k has added to a Deferred.
Databacks(h, k) ==
    {c \in NodeIds : h.node[c].used /\ h.node[c].cb = Fun("success_databack", k)}

IsSuffix(a, b) ==
    Len(a) <= Len(b) /\ \A i \in 1..Len(a) : a[i] = b[Len(b) - Len(a) + i]

\* How often the nodes in cs were fired with the outcome o.
RECURSIVE Fired(_, _, _)
Fired(h, cs, o) ==
    IF cs = {} THEN 0
    ELSE LET c == CHOOSE x \in cs : TRUE IN
         Occ(h.node[c].got, o) + Fired(h, cs \ {c}, o)

\* What foo's Deferred resolves with once a has resolved with the outcome o.
FooOutcome(h, o) ==
    LET bar == IF o[1] = "error" THEN o
               ELSE IF h.gen[2].ending = "ReturnLast" THEN o
               ELSE <<"error", "E3">>
    IN  IF bar[1] = "success" THEN <<"success", "yay " \o bar[2]>>
        ELSE IF h.gen[1].catches THEN <<"success", "yay 404">>
        ELSE bar

\* C31: for every node a yield of a coroutine has added to a Deferred d:
\* it has been fired once for every resolution of d since the yield (its
\* calls are the last outcomes of d, and at least one if d has resolved at
\* all, so that no coroutine is left waiting for a resolved Deferred when a
\* send or submit returns); every such firing has sent the value into the
\* generator or thrown the error into it, once, and nothing else was sent
\* after the start; and with foo waiting for bar and bar for a, once a has
\* resolved once foo's Deferred has resolved with what foo computes of it.
C31_ResumedPerResolution ==
    /\ \A k \in {1, 2} : \A c \in Databacks(heap, k) :
          LET d == heap.node[heap.node[c].up] IN
          /\ heap.node[c].eb = Fun("error_databack", k)
          /\ d.outcomes /= <<>> => heap.node[c].got /= <<>>
          /\ \/ InSeq(d.children, c) /\ IsSuffix(heap.node[c].got, d.outcomes)
             \/ /\ ~InSeq(d.children, c) /\ Len(heap.node[c].got) = 1
                /\ InSeq(d.outcomes, heap.node[c].got[1])
    /\ \A k \in {1, 2} :
          LET g == heap.gen[k] IN
          /\ g.started => g.sent /= <<>> /\ g.sent[1] = <<"SUCCESS", "None">>
          /\ ~g.started => g.sent = <<>>
          /\ \A v \in Values \cup Errors \cup {"E3", "yay a", "yay None", "yay 404"} :
                /\ Occ(g.sent, <<"SUCCESS", v>>) =
                      Fired(heap, Databacks(heap, k), <<"success", v>>)
                      + (IF g.started /\ v = "None" THEN 1 ELSE 0)
                /\ Occ(g.sent, <<"ERROR", v>>) =
                      Fired(heap, Databacks(heap, k), <<"error", v>>)
    /\ (/\ heap.gen[1].yields = <<0>> /\ heap.gen[1].started
        /\ heap.gen[2].yields = <<1>>
        /\ Len(heap.node[1].outcomes) = 1) =>
          /\ heap.node[2].outcomes = <<FooOutcome(heap, heap.node[1].outcomes[1])>>
          /\ Cached(heap, 2, FooOutcome(heap, heap.node[1].outcomes[1]))

\* foo was started and waited for bar, bar for a (node 4 is in a's list of
\* children); a has since resolved with "a": bar was resumed with "a" and
\* returned it, foo was resumed with it and its Deferred holds "yay a".
C31_Witness ==
    /\ heap.gen[1].yields = <<0>> /\ heap.gen[2].yields = <<1>>
    /\ heap.gen[2].ending = "ReturnLast"
    /\ heap.node[1].children = <<4>>
    /\ heap.node[1].outcomes = <<<<"success", "a">>>>
    /\ heap.gen[2].sent = <<<<"SUCCESS", "None">>, <<"SUCCESS", "a">>>>
    /\ heap.gen[1].sent = <<<<"SUCCESS", "None">>, <<"SUCCESS", "a">>>>
    /\ synchronize(heap, 2) = [raises |-> FALSE, value |-> "yay a"]

----------------------------------------------------------------------------
(* Specification SpecThreaded: Deferred.threaded_coroutine(socket_map, fun) *)
(* with and without a socket map.  thr is the thread it starts:             *)
(*   thr.callbacks  what obj.callbacks is: "Node" (node 1 of the heap) or   *)
(*                  "SocketMap";                                            *)
(*   thr.pc         created (thread started), returned / raised (fun has    *)
(*                  ended), done (_coroutine returned), died (an exception  *)
(*                  left _coroutine);                                       *)
(*   thr.log        the calls of success_callback / error_callback on       *)
(*                  obj.callbacks, with the thread that made them.          *)
(* The application, on the reactor thread, adds callbacks to obj.callbacks. *)

\* fun(*args, **kwargs): what it returns or raises.
FunResults == {<<"returned", v>> : v \in Values} \cup {<<"raised", e>> : e \in Errors}

\* Before threaded_coroutine is called.
NoThread == [pc |-> "none", callbacks |-> "none", data |-> "None", log |-> <<>>]

InitThreaded ==
    /\ heap = NewHeap(0)
    /\ nres = 0
    /\ thr = NoThread
    /\ tr = NewTransport
    /\ sm = NewMap("select")
    /\ hist = <<>>
    /\ SendQuiet
    /\ EeQuiet
    /\ CsQuiet
    /\ LifeQuiet
    /\ IntQuiet

\* obj = cls(socket_map); threading.Thread(target=cls._coroutine, ...).start()
\* Deferred.__init__(callbacks): callbacks = Node() if callbacks is None.
ThreadedCoroutine(socket_map) ==
    /\ thr.pc = "none"
    /\ IF socket_map = "None"
       THEN /\ heap' = NewHeap(1)
            /\ thr' = [thr EXCEPT !.pc = "created", !.callbacks = "Node"]
       ELSE /\ thr' = [thr EXCEPT !.pc = "created", !.callbacks = "SocketMap"]
            /\ UNCHANGED heap
    /\ UNCHANGED <<nres, flagVars, csVars, intVars, lifeVars, sendVars, eeVars>>

\* The worker thread, in _coroutine: fun(*args, **kwargs) returns or raises.
WorkerFun(result) ==
    /\ thr.pc = "created"
    /\ thr' = [thr EXCEPT !.pc = result[1], !.data = result[2]]
    /\ UNCHANGED <<heap, nres, flagVars, csVars, intVars, lifeVars, sendVars, eeVars>>

\* The worker thread, in _coroutine: obj.submit_success(result), or
\* obj.submit_error(e) in the except branch.  On a socket map
\* self.callbacks.success_callback is an AttributeError, which the except
\* branch catches, and self.callbacks.error_callback is another, which
\* leaves _coroutine.
WorkerSubmit ==
    /\ thr.pc \in {"returned", "raised"}
    /\ IF thr.callbacks = "Node"
       THEN /\ LET h == IF thr.pc = "returned"
                        THEN success_callback(heap, 1, thr.data)
                        ELSE error_callback(heap, 1, thr.data)
               IN  /\ ~h.over
                   /\ heap' = h
            /\ thr' = [thr EXCEPT !.pc = "done",
                                  !.log = Append(@, [by |-> "worker",
                                                     call |-> thr.pc,
                                                     data |-> thr.data])]
       ELSE /\ thr' = [thr EXCEPT !.pc = "died"]
            /\ UNCHANGED heap
    /\ UNCHANGED <<nres, flagVars, csVars, intVars, lifeVars, sendVars, eeVars>>

\* obj.callbacks.add(callback, errback) by the application, with callbacks
\* that add no node themselves.
ThreadedAdd(callback, errback) ==
    /\ thr.callbacks = "Node"
    /\ callback.k \in {"default_callback", "raise"}
    /\ AddNode(1, callback, errback)

NextThreaded ==
    \/ \E socket_map \in {"None", "SocketMap"} : ThreadedCoroutine(socket_map)
    \/ \E result \in FunResults : WorkerFun(result)
    \/ WorkerSubmit
    \/ \E f \in AppCallbacks(1) : ThreadedAdd(f[1], f[2])

\* The worker thread runs until _coroutine ends.
SpecThreaded ==
    /\ InitThreaded
    /\ [][NextThreaded]_vars
    /\ WF_vars(\E result \in FunResults : WorkerFun(result))
    /\ WF_vars(WorkerSubmit)

\* C32: every call of success_callback / error_callback on the Deferred of
\* a threaded coroutine is made by the reactor thread, and once the thread
\* is started the Deferred is eventually resolved.
C32_ResolvedOnReactor ==
    /\ [](\A i \in 1..Len(thr.log) : thr.log[i].by = "reactor")
    /\ (thr.pc = "created" ~>
            (thr.callbacks = "Node" /\ heap.node[1].outcomes /= <<>>))

====
